---- MODULE Spec2Model ----
(***************************************************************************)
(* A model of the declarative agent framework's text pipeline:             *)
(*   - framework/utils.py: remove_think_tags and ThinkTagFilter            *)
(*   - framework/input_sources.py: InputSourceHandler (placeholders)       *)
(*   - framework/context.py: AgentContext                                  *)
(*   - framework/specialized_agents/structured_output_agent.py:            *)
(*     StructuredOutputAgent.run                                           *)
(* Python strings are sequences of one-character strings, so that          *)
(* searching, slicing, stripping and quoting are computed, not assumed.    *)
(***************************************************************************)
EXTENDS Naturals, Integers, Sequences, FiniteSets, TLC

VARIABLES
    \* ThinkTagFilter (utils.py:58-96) and the history of its calls
    inside_think_tag, buffer, tokens, chunks,
    \* remove_think_tags (utils.py:12-32): argument, result, result of a second pass
    text, cleaned, recleaned, bpc,
    \* InputSourceHandler.resolve_input (input_sources.py:19-84): the tool's
    \* input_template, the caller's input, the AgentContext, the result
    template, base_input, context, resolved, rpc,
    \* StructuredOutputAgent.run (structured_output_agent.py:123-197): where the
    \* call stands, the thinker's print_think_tokens, the events seen (their
    \* number and the events themselves), the
    \* deltas kept, what was printed, the calls made, the formatter's input
    \* and result, and how the call ended
    ppc, should_print_think, nevents, events, raw_chunks, printed, thinker_calls,
    formatter_calls, formatter_input, formatter_result, outcome,
    \* AgentSpecification.run (declarative_agents/__init__.py:203-338): where
    \* the call stands, the definition, the arguments input_data and context,
    \* the prepared input, the final output of the streamed agent and the
    \* value returned
    apc, definition, input_data, run_context, full_input, streamed_final_output,
    run_result,
    \* _current_context (tool_context.py:16-18): its value in each task
    current_context,
    \* the runs in progress in each task (innermost last), the task that
    \* awaits each task, and the last get_current_context of an agent tool
    \* (tools.py:151-166)
    task_runs, task_parent, last_read,
    \* evaluate_agent_against_suite (evaluation.py:229-439): where the call
    \* stands, the exception that ended it, its arguments and the agent's
    \* kind, the cases done, the rows recorded, the passes counted, the
    \* table printed, the pass rate logged, and for each case run how the agent's run ended and
    \* which judge agents were invoked with what result
    epc, eval_error, test_suite, use_structured_output, eval_output_model,
    cases_done, case_rows, pass_count, table, pass_rate, case_log,
    \* ModelFactory.create_output_model_from_schema (models.py:17-66): the
    \* schema's properties and the outcome
    schema_properties, built,
    \* AgentLoader.load_from_dict (declarative_agents/__init__.py:363-432):
    \* the parsed YAML and the outcome
    yaml_data, loaded

filterVars == <<inside_think_tag, buffer, tokens, chunks>>
batchVars == <<text, cleaned, recleaned, bpc>>
resolverVars == <<template, base_input, context, resolved, rpc>>
pipelineVars == <<ppc, should_print_think, nevents, events, raw_chunks, printed,
                  thinker_calls, formatter_calls, formatter_input,
                  formatter_result, outcome>>
runVars == <<apc, definition, input_data, run_context, full_input,
             streamed_final_output, run_result>>
cellVars == <<current_context>>
taskVars == <<task_runs, task_parent, last_read>>
evalVars == <<epc, eval_error, test_suite, use_structured_output, eval_output_model,
              cases_done, case_rows, pass_count, table, pass_rate, case_log>>
buildVars == <<schema_properties, built>>
loadVars == <<yaml_data, loaded>>
vars == <<inside_think_tag, buffer, tokens, chunks, text, cleaned, recleaned, bpc,
          template, base_input, context, resolved, rpc,
          ppc, should_print_think, nevents, events, raw_chunks, printed, thinker_calls,
          formatter_calls, formatter_input, formatter_result, outcome,
          apc, definition, input_data, run_context, full_input,
          streamed_final_output, run_result, current_context,
          task_runs, task_parent, last_read,
          epc, eval_error, test_suite, use_structured_output, eval_output_model,
          cases_done, case_rows, pass_count, table, pass_rate, case_log,
          schema_properties, built, yaml_data, loaded>>
\* what the operations of one component leave alone
laterVars == <<taskVars, evalVars, buildVars, loadVars>>
exceptFilter == <<batchVars, resolverVars, pipelineVars, runVars, cellVars, laterVars>>
exceptBatch == <<filterVars, resolverVars, pipelineVars, runVars, cellVars, laterVars>>
exceptResolver == <<filterVars, batchVars, pipelineVars, runVars, cellVars, laterVars>>
exceptPipeline == <<batchVars, resolverVars, runVars, cellVars, laterVars>>
exceptRun == <<batchVars, resolverVars, laterVars>>
exceptTasks == <<filterVars, batchVars, resolverVars, pipelineVars, runVars,
                 evalVars, buildVars, loadVars>>
exceptEval == <<filterVars, batchVars, resolverVars, pipelineVars, runVars,
                cellVars, taskVars, buildVars, loadVars>>
exceptBuild == <<filterVars, batchVars, resolverVars, pipelineVars, runVars,
                 cellVars, taskVars, evalVars, loadVars>>
exceptLoad == <<filterVars, batchVars, resolverVars, pipelineVars, runVars,
                cellVars, taskVars, evalVars, buildVars>>

(***************************************************************************)
(* Bounds of the model.                                                    *)
(***************************************************************************)
\* tokens fed to one ThinkTagFilter between two resets
MaxTokens == 3
\* pieces concatenated into one argument of remove_think_tags
MaxPieces == 3
\* pieces concatenated into one input_template
MaxTemplatePieces == 2
\* events of one thinker stream
MaxEvents == 2
\* asyncio tasks alive at one time
MaxTasks == 2
\* agent runs nested in one task
MaxNesting == 2
\* test cases of one suite
MaxCases == 3
\* levels of arrays and objects in one field of an output schema
MaxSchemaDepth == 2

(***************************************************************************)
(* Python str operations on sequences of characters.                       *)
(***************************************************************************)
UpperChars == <<"A","B","C","D","E","F","G","H","I","J","K","L","M",
                "N","O","P","Q","R","S","T","U","V","W","X","Y","Z">>
LowerChars == <<"a","b","c","d","e","f","g","h","i","j","k","l","m",
                "n","o","p","q","r","s","t","u","v","w","x","y","z">>
UpperSet == {UpperChars[i] : i \in 1..26}

\* str.lower() on one character
LowerChar(c) ==
    IF c \in UpperSet
    THEN LowerChars[CHOOSE i \in 1..26 : UpperChars[i] = c]
    ELSE c

\* str.lower()
Lower(s) == [i \in 1..Len(s) |-> LowerChar(s[i])]

\* the characters str.strip(), str.lstrip(), str.rstrip() and regex \s remove
IsSpace(c) == c \in {" ", "\n", "\t"}

\* s[i:] of Python, with i counted from 1 here
From(s, i) == SubSeq(s, i, Len(s))

\* pat occurs in s at position i
MatchAt(s, pat, i) ==
    /\ i >= 1
    /\ i + Len(pat) - 1 <= Len(s)
    /\ \A j \in 1..Len(pat) : s[i + j - 1] = pat[j]

\* str.find(pat): the first position (from 1) of pat in s, 0 when absent
Find(s, pat) ==
    IF \E i \in 1..Len(s) : MatchAt(s, pat, i)
    THEN CHOOSE i \in 1..Len(s) :
             /\ MatchAt(s, pat, i)
             /\ \A j \in 1..(i - 1) : ~MatchAt(s, pat, j)
    ELSE 0

\* pat in s
Contains(s, pat) == Find(s, pat) # 0

\* str.lstrip()
LStrip(s) ==
    IF \A i \in 1..Len(s) : IsSpace(s[i])
    THEN <<>>
    ELSE From(s, CHOOSE i \in 1..Len(s) :
                     /\ ~IsSpace(s[i])
                     /\ \A j \in 1..(i - 1) : IsSpace(s[j]))

\* str.rstrip()
RStrip(s) ==
    IF \A i \in 1..Len(s) : IsSpace(s[i])
    THEN <<>>
    ELSE SubSeq(s, 1, CHOOSE i \in 1..Len(s) :
                          /\ ~IsSpace(s[i])
                          /\ \A j \in (i + 1)..Len(s) : IsSpace(s[j]))

\* str.strip()
Strip(s) == LStrip(RStrip(s))

\* "".join(parts)
RECURSIVE Join(_)
Join(parts) ==
    IF parts = <<>> THEN <<>> ELSE Head(parts) \o Join(Tail(parts))

\* the literal tags the two filters search for
OPEN_TAG == <<"<","t","h","i","n","k",">">>
CLOSE_TAG == <<"<","/","t","h","i","n","k",">">>

(***************************************************************************)
(* ThinkTagFilter.filter_token (utils.py:63-92).  The result is the state  *)
(* the call leaves and the chunk it returns.                               *)
(***************************************************************************)
\* the branch outside a think span, returning the whole buffer where the
\* code returns the text before the tag
FilterOutsideLeaky(buf) ==
    IF Contains(Lower(buf), OPEN_TAG)
    THEN [inside |-> TRUE,
          buffer |-> From(buf, Find(Lower(buf), OPEN_TAG) + 7),
          out    |-> buf]
    ELSE [inside |-> FALSE, buffer |-> <<>>, out |-> buf]

\* the branch outside a think span, keeping the buffer it returns
FilterOutsideKeeping(buf) ==
    IF Contains(Lower(buf), OPEN_TAG)
    THEN [inside |-> TRUE,
          buffer |-> From(buf, Find(Lower(buf), OPEN_TAG) + 7),
          out    |-> RStrip(SubSeq(buf, 1, Find(Lower(buf), OPEN_TAG) - 1))]
    ELSE [inside |-> FALSE, buffer |-> buf, out |-> buf]

\* the branch taken outside a think span, utils.py:83-92
FilterOutside(buf) ==
    IF Contains(Lower(buf), OPEN_TAG)
    THEN LET think_pos == Find(Lower(buf), OPEN_TAG)
         IN  [inside |-> TRUE,
              buffer |-> From(buf, think_pos + 7),
              out    |-> RStrip(SubSeq(buf, 1, think_pos - 1))]
    ELSE [inside |-> FALSE, buffer |-> <<>>, out |-> buf]

\* the text after the closing tag that is filtered again, utils.py:71-72
Remaining(buf) ==
    LStrip(From(buf, Find(Lower(buf), CLOSE_TAG) + 8))

\* the call with a buffer that is kept and emitted again outside a span
RECURSIVE filter_token_repeating(_, _, _)
filter_token_repeating(inside, buf0, token) ==
    IF token = <<>>
    THEN [inside |-> inside, buffer |-> buf0, out |-> token]
    ELSE LET buf == buf0 \o token
         IN  IF inside
             THEN IF Contains(Lower(buf), CLOSE_TAG)
                  THEN IF Remaining(buf) # <<>>
                       THEN filter_token_repeating(FALSE, <<>>, Remaining(buf))
                       ELSE [inside |-> FALSE, buffer |-> <<>>, out |-> <<>>]
                  ELSE [inside |-> TRUE, buffer |-> <<>>, out |-> <<>>]
             ELSE [FilterOutside(buf) EXCEPT !.out = @ \o @]

RECURSIVE filter_token(_, _, _)
filter_token(inside, buf0, token) ==
    IF token = <<>>
    THEN [inside |-> inside, buffer |-> buf0, out |-> token]
    ELSE LET buf == buf0 \o token
         IN  IF inside
             THEN IF Contains(Lower(buf), CLOSE_TAG)
                  THEN IF Remaining(buf) # <<>>
                       THEN filter_token(FALSE, <<>>, Remaining(buf))
                       ELSE [inside |-> FALSE, buffer |-> <<>>, out |-> <<>>]
                  ELSE [inside |-> TRUE, buffer |-> <<>>, out |-> <<>>]
             ELSE FilterOutside(buf)

\* the tokens a stream may deliver
T_full == <<"<","t","h","i","n","k",">","a","b","c","<","/","t","h","i","n","k",">","v","i","s","i","b","l","e">>
T_head == <<"<","t","h","i","n","k",">","a","b">>
T_tail == <<"c","<","/","t","h","i","n","k",">","v","i","s","i","b","l","e">>
T_visible == <<"v","i","s","i","b","l","e">>
T_two == <<"x","<","/","t","h","i","n","k",">"," ","y","<","t","h","i","n","k",">","z">>

StreamTokens ==
    { <<>>, <<"a">>, <<"a"," ">>, <<" ","b">>,
      OPEN_TAG, CLOSE_TAG, <<"<","T","h","i","n","k",">">>,
      <<"<","t","h","i">>, <<"n","k",">">>, <<"<","/","t","h","i">>,
      T_full, T_head, T_tail, T_two }

\* ThinkTagFilter.__init__ (utils.py:59-61)
FilterInit ==
    /\ inside_think_tag = FALSE
    /\ buffer = <<>>
    /\ tokens = <<>>
    /\ chunks = <<>>

\* one call filter_token(token); the call and its result are recorded
FilterToken(token) ==
    /\ Len(tokens) < MaxTokens
    /\ LET r == filter_token(inside_think_tag, buffer, token)
       IN  /\ inside_think_tag' = r.inside
           /\ buffer' = r.buffer
           /\ chunks' = Append(chunks, r.out)
    /\ tokens' = Append(tokens, token)
    /\ UNCHANGED exceptFilter

\* ThinkTagFilter.reset (utils.py:94-96); the recorded history starts again
Reset ==
    /\ tokens # <<>>
    /\ inside_think_tag' = FALSE
    /\ buffer' = <<>>
    /\ tokens' = <<>>
    /\ chunks' = <<>>
    /\ UNCHANGED exceptFilter

BatchIdle ==
    /\ text = <<>>
    /\ cleaned = <<>>
    /\ recleaned = <<>>
    /\ bpc = "idle"

\* no tool call is being resolved
ResolverIdle ==
    /\ template = <<>>
    /\ base_input = <<>>
    /\ context = [present |-> FALSE, agent_outputs |-> <<>>]
    /\ resolved = <<>>
    /\ rpc = "idle"

\* the values of an AgentOutput, and Python's None
StrV(s) == [t |-> "str", s |-> s, n |-> 0, kv |-> <<>>]
IntV(n) == [t |-> "int", s |-> <<>>, n |-> n, kv |-> <<>>]
DictV(kv) == [t |-> "dict", s |-> <<>>, n |-> 0, kv |-> kv]
NoneV == [t |-> "none", s |-> <<>>, n |-> 0, kv |-> <<>>]

\* no StructuredOutputAgent is running
PipelineIdle ==
    /\ ppc = "idle"
    /\ should_print_think = FALSE
    /\ nevents = 0
    /\ events = <<>>
    /\ raw_chunks = <<>>
    /\ printed = <<>>
    /\ thinker_calls = 0
    /\ formatter_calls = 0
    /\ formatter_input = <<>>
    /\ formatter_result = [final_output |-> NoneV, as_model |-> NoneV]
    /\ outcome = [kind |-> "pending", value |-> NoneV, raw_output |-> <<>>]

\* AgentSpecification.run has not been called
RunIdle ==
    /\ apc = "idle"
    /\ definition = [name |-> <<>>, agent_type |-> "agent",
                     output_model |-> FALSE, required_context |-> <<>>]
    /\ input_data = <<>>
    /\ run_context = [present |-> FALSE, agent_outputs |-> <<>>]
    /\ full_input = <<>>
    /\ streamed_final_output = NoneV
    /\ run_result = NoneV

\* the tasks of the event loop
Tasks == 1..MaxTasks

\* ContextVar("_current_context", default=None) (tool_context.py:16-18)
CellIdle ==
    current_context = [task \in Tasks |-> [present |-> FALSE, agent_outputs |-> <<>>]]

\* no agent runs in any task
TasksIdle ==
    /\ task_runs = [task \in Tasks |-> <<>>]
    /\ task_parent = [task \in Tasks |-> 0]
    /\ last_read = [some |-> FALSE, run_context |-> [present |-> FALSE, agent_outputs |-> <<>>],
                    seen |-> [present |-> FALSE, agent_outputs |-> <<>>],
                    after_nested |-> FALSE]

\* a number kept as a fraction; 0 is 0/1
Ratio(num, den) == [num |-> num, den |-> den]
\* no number yet
NoRatio == Ratio(0, 0)

\* no evaluation is running
EvalIdle ==
    /\ epc = "idle"
    /\ eval_error = <<>>
    /\ test_suite = <<>>
    /\ use_structured_output = FALSE
    /\ eval_output_model = FALSE
    /\ cases_done = 0
    /\ case_rows = <<>>
    /\ pass_count = 0
    /\ table = <<>>
    /\ pass_rate = NoRatio
    /\ case_log = <<>>

\* no output model is being built
BuildIdle ==
    /\ schema_properties = <<>>
    /\ built = [kind |-> "idle", error |-> "", fields |-> <<>>]

\* no agent definition is being loaded
LoadIdle ==
    /\ yaml_data = <<>>
    /\ loaded = [kind |-> "idle", error |-> "", agent_type |-> ""]

\* the components modelled further down are at rest
RestIdle == RunIdle /\ CellIdle /\ TasksIdle /\ EvalIdle /\ BuildIdle /\ LoadIdle

Init == FilterInit /\ BatchIdle /\ ResolverIdle /\ PipelineIdle /\ RestIdle

Next ==
    \/ \E token \in StreamTokens : FilterToken(token)
    \/ Reset

Spec == Init /\ [][Next]_vars

(***************************************************************************)
(* Claims about ThinkTagFilter, checked under Spec.                        *)
(***************************************************************************)
\* everything fed to the filter since construction or the last reset
Fed == Join(tokens)

\* everything the filter returned since construction or the last reset
Emitted == Join(chunks)

\* what a fresh filter returns when s is fed to it as one single token
SingleFeed(s) == filter_token(FALSE, <<>>, s).out

\* the number of places at which pat occurs in s
CountOcc(s, pat) == Cardinality({i \in 1..Len(s) : MatchAt(s, pat, i)})

RECURSIVE SumOcc(_, _)
SumOcc(toks, pat) ==
    IF toks = <<>> THEN 0
    ELSE CountOcc(Lower(Head(toks)), pat) + SumOcc(Tail(toks), pat)

\* every tag of the stream lies wholly inside one token
TagsWhole ==
    /\ CountOcc(Lower(Fed), OPEN_TAG) = SumOcc(tokens, OPEN_TAG)
    /\ CountOcc(Lower(Fed), CLOSE_TAG) = SumOcc(tokens, CLOSE_TAG)

\* s with every span from an opening tag to the nearest following closing tag
\* removed, tags included, and every other character kept
RECURSIVE Visible(_)
Visible(s) ==
    LET o == Find(Lower(s), OPEN_TAG)
    IN  IF o = 0 THEN s
        ELSE LET rest == From(s, o + 7)
                 c == Find(Lower(rest), CLOSE_TAG)
             IN  IF c = 0 THEN SubSeq(s, 1, o - 1)
                 ELSE SubSeq(s, 1, o - 1) \o Visible(From(rest, c + 8))

\* C1: on a fresh filter, filter_token("<think>abc</think>visible") returns
\* "visible" in that same call.
C1_SingleTokenVisible ==
    tokens = <<T_full>> => chunks = <<T_visible>>

\* C2: split-invariance: feeding non-empty tokens in order to a fresh filter and
\* concatenating the returned chunks gives what feeding their concatenation as
\* one single token to a fresh filter gives.
C2_SplitInvariance ==
    (\A i \in 1..Len(tokens) : tokens[i] # <<>>) => Emitted = SingleFeed(Fed)

\* C3: when each tag lies wholly inside one token, the concatenation of the
\* returned chunks is the concatenated input with exactly the think spans
\* removed and every other character, whitespace included, kept.
C3_PreservesOutside ==
    TagsWhole => Emitted = Visible(Fed)

(***************************************************************************)
(* remove_think_tags (utils.py:12-32), one operator per statement.         *)
(***************************************************************************)
\* the pattern with a greedy .* instead of .*? : the first opening tag is
\* deleted with everything up to the last closing tag
RemoveSpansGreedy(s) ==
    LET l == Lower(s)
        o == Find(l, OPEN_TAG)
    IN  IF o = 0 \/ ~\E c \in (o + 7)..Len(s) : MatchAt(l, CLOSE_TAG, c) THEN s
        ELSE LET c == CHOOSE c \in (o + 7)..Len(s) :
                          /\ MatchAt(l, CLOSE_TAG, c)
                          /\ \A d \in (c + 1)..Len(s) : ~MatchAt(l, CLOSE_TAG, d)
             IN  SubSeq(s, 1, o - 1) \o From(s, c + 8)

\* re.sub(r"<think>.*?</think>", "", text) with DOTALL | IGNORECASE
\* (utils.py:17-18): each opening tag is deleted with everything up to the
\* nearest closing tag after it; the scan goes on after the deleted span
RECURSIVE RemoveSpans(_)
RemoveSpans(s) ==
    LET o == Find(Lower(s), OPEN_TAG)
    IN  IF o = 0 THEN s
        ELSE LET rest == From(s, o + 7)
                 c == Find(Lower(rest), CLOSE_TAG)
             IN  IF c = 0 THEN s
                 ELSE SubSeq(s, 1, o - 1) \o RemoveSpans(From(rest, c + 8))

\* re.sub(r"</?think>", "", text, flags=IGNORECASE) (utils.py:21): one pass
\* from the left; what the deletions bring together is not scanned again
RECURSIVE RemoveStrayTags(_)
RemoveStrayTags(s) ==
    LET o == Find(Lower(s), OPEN_TAG)
        c == Find(Lower(s), CLOSE_TAG)
    IN  IF o = 0 /\ c = 0 THEN s
        ELSE IF c = 0 \/ (o # 0 /\ o < c)
             THEN SubSeq(s, 1, o - 1) \o RemoveStrayTags(From(s, o + 7))
             ELSE SubSeq(s, 1, c - 1) \o RemoveStrayTags(From(s, c + 8))

\* the last index of the run of whitespace that starts at index i (i - 1 when
\* s[i] is no whitespace)
SpaceRunEnd(s, i) ==
    IF i > Len(s) \/ ~IsSpace(s[i]) THEN i - 1
    ELSE CHOOSE e \in i..Len(s) :
             /\ \A j \in i..e : IsSpace(s[j])
             /\ (e = Len(s) \/ ~IsSpace(s[e + 1]))

\* re.sub(r"\n\s*\n", "\n\n", text) (utils.py:24-26): from a line break, the
\* greedy \s* runs to the last line break of the whitespace that follows
RECURSIVE NormalizeBreaks(_)
NormalizeBreaks(s) ==
    IF s = <<>> THEN <<>>
    ELSE IF s[1] = "\n" /\ \E j \in 2..SpaceRunEnd(s, 2) : s[j] = "\n"
         THEN LET last == CHOOSE j \in 2..SpaceRunEnd(s, 2) :
                              /\ s[j] = "\n"
                              /\ \A k \in (j + 1)..SpaceRunEnd(s, 2) : s[k] # "\n"
              IN  <<"\n", "\n">> \o NormalizeBreaks(From(s, last + 1))
         ELSE <<s[1]>> \o NormalizeBreaks(Tail(s))

\* re.sub(r" +", " ", text) (utils.py:27-29)
RECURSIVE CollapseSpaces(_)
CollapseSpaces(s) ==
    IF s = <<>> THEN <<>>
    ELSE IF s[1] = " "
         THEN IF Len(s) >= 2 /\ s[2] = " "
              THEN CollapseSpaces(Tail(s))
              ELSE <<" ">> \o CollapseSpaces(Tail(s))
         ELSE <<s[1]>> \o CollapseSpaces(Tail(s))

\* text.replace("\\n", " ") (utils.py:30): a backslash followed by the letter n
RECURSIVE ReplaceEscapedNewlines(_)
ReplaceEscapedNewlines(s) ==
    IF s = <<>> THEN <<>>
    ELSE IF Len(s) >= 2 /\ s[1] = "\\" /\ s[2] = "n"
         THEN <<" ">> \o ReplaceEscapedNewlines(From(s, 3))
         ELSE <<s[1]>> \o ReplaceEscapedNewlines(Tail(s))

remove_think_tags(s) ==
    IF s = <<>> THEN s
    ELSE Strip(ReplaceEscapedNewlines(CollapseSpaces(NormalizeBreaks(
             RemoveStrayTags(RemoveSpans(s))))))

\* the arguments remove_think_tags is applied to
W_hello == <<"H","e","l","l","o">>
W_world == <<"W","o","r","l","d">>
W_ignore == <<"i","g","n","o","r","e"," ","t","h","i","s">>
T_example == <<"H","e","l","l","o"," ","<","t","h","i","n","k",">","i","g","n","o","r","e"," ","t","h","i","s","<","/","t","h","i","n","k",">"," ","W","o","r","l","d">>
T_example_clean == <<"H","e","l","l","o"," ","W","o","r","l","d">>

Pieces ==
    { OPEN_TAG, CLOSE_TAG, <<"<","t","h","i">>, <<"n","k",">">>,
      <<"a">>, <<" ">>, <<"\n">>, <<"\\","n">>, <<"\\">> }

RECURSIVE PieceSeqs(_)
PieceSeqs(n) ==
    IF n = 0 THEN {<<>>}
    ELSE PieceSeqs(n - 1) \cup
         {Append(ps, p) : ps \in PieceSeqs(n - 1), p \in Pieces}

\* tag-free words without whitespace, the texts around a span
PlainWords == {W_hello, W_world, <<"a">>}
\* what a span may hold: text, nothing, a line break, another opening tag
SpanBodies == {W_ignore, <<>>, <<"x","\n","y">>, OPEN_TAG}
OpenSpellings == {OPEN_TAG, <<"<","T","H","I","N","K",">">>}
CloseSpellings == {CLOSE_TAG, <<"<","/","T","h","i","n","k",">">>}

\* a, one space, a span, one space, b
Wrap(a, o, x, c, b) == a \o <<" ">> \o o \o x \o c \o <<" ">> \o b

WrappedTexts ==
    {Wrap(a, o, x, c, b) : a \in PlainWords, o \in OpenSpellings,
         x \in SpanBodies, c \in CloseSpellings, b \in PlainWords}

\* two spans in one text: a, span, b, span, c
DoubleWrapped(a, x, b, y, c) ==
    Wrap(a, OPEN_TAG, x, CLOSE_TAG, b) \o <<" ">> \o OPEN_TAG \o y
        \o CLOSE_TAG \o <<" ">> \o c

DoubleTexts ==
    {DoubleWrapped(a, x, b, x, a) : a \in PlainWords, x \in SpanBodies,
         b \in PlainWords}

BatchTexts ==
    {Join(ps) : ps \in PieceSeqs(MaxPieces)} \cup WrappedTexts \cup DoubleTexts

BatchInit ==
    /\ text \in BatchTexts
    /\ cleaned = <<>>
    /\ recleaned = <<>>
    /\ bpc = "start"

\* cleaned = remove_think_tags(text)
Clean ==
    /\ bpc = "start"
    /\ cleaned' = remove_think_tags(text)
    /\ bpc' = "cleaned"
    /\ UNCHANGED <<text, recleaned>>
    /\ UNCHANGED exceptBatch

\* recleaned = remove_think_tags(cleaned)
CleanAgain ==
    /\ bpc = "cleaned"
    /\ recleaned' = remove_think_tags(cleaned)
    /\ bpc' = "recleaned"
    /\ UNCHANGED <<text, cleaned>>
    /\ UNCHANGED exceptBatch

InitBatch ==
    BatchInit /\ FilterInit /\ ResolverIdle /\ PipelineIdle /\ RestIdle

NextBatch == Clean \/ CleanAgain

SpecBatch == InitBatch /\ [][NextBatch]_vars

(***************************************************************************)
(* Claims about remove_think_tags, checked under SpecBatch.                *)
(***************************************************************************)
\* C4: remove_think_tags is idempotent:
\* remove_think_tags(remove_think_tags(s)) = remove_think_tags(s) for every s.
C4_Idempotent ==
    bpc = "recleaned" => recleaned = cleaned

\* C5: remove_think_tags deletes every span (an opening tag pairs with the
\* nearest following closing tag, in any letter case, across line breaks) and
\* collapses the spaces left behind: words a and b separated from the span by
\* single spaces come out as a, one space, b; the example gives "Hello World".
C5_SpanRemoved ==
    bpc # "start" =>
        /\ text = T_example => cleaned = T_example_clean
        /\ \A a \in PlainWords, b \in PlainWords, x \in SpanBodies :
               /\ \A o \in OpenSpellings, c \in CloseSpellings :
                      text = Wrap(a, o, x, c, b) => cleaned = a \o <<" ">> \o b
               /\ text = DoubleWrapped(a, x, b, x, a) =>
                      cleaned = a \o <<" ">> \o b \o <<" ">> \o a

\* C5 witness: the example has been cleaned
C5_Witness ==
    /\ bpc = "cleaned"
    /\ text = T_example
    /\ cleaned = T_example_clean

(***************************************************************************)
(* AgentContext (context.py:18-30).  An output is a string or a mapping    *)
(* (a dict, kept in insertion order as a sequence of <<key, value>>        *)
(* pairs) of strings, numbers and mappings.                                *)
(***************************************************************************)
\* key in d
HasKey(kv, k) == \E i \in 1..Len(kv) : kv[i][1] = k

\* d[key]
GetKey(kv, k) == kv[CHOOSE i \in 1..Len(kv) : kv[i][1] = k][2]

\* d[key] = value: an existing key keeps its place, a new one goes last
SetKey(kv, k, v) ==
    IF HasKey(kv, k)
    THEN [i \in 1..Len(kv) |-> IF kv[i][1] = k THEN <<k, v>> ELSE kv[i]]
    ELSE Append(kv, <<k, v>>)

\* context = None
NoContext == [present |-> FALSE, agent_outputs |-> <<>>]

\* AgentContext()
EmptyContext == [present |-> TRUE, agent_outputs |-> <<>>]

\* add_output that replaces the whole mapping by the one new entry
add_output_replacing(ctx, agent_name, output) ==
    [ctx EXCEPT !.agent_outputs = <<<<agent_name, output>>>>]

\* AgentContext.add_output (context.py:23-24)
add_output(ctx, agent_name, output) ==
    [ctx EXCEPT !.agent_outputs = SetKey(ctx.agent_outputs, agent_name, output)]

(***************************************************************************)
(* json.dumps(value, ensure_ascii=False) (input_sources.py:72).            *)
(***************************************************************************)
EscapeChar(c) ==
    IF c = "\"" THEN <<"\\", "\"">>
    ELSE IF c = "\\" THEN <<"\\", "\\">>
    ELSE IF c = "\n" THEN <<"\\", "n">>
    ELSE IF c = "\t" THEN <<"\\", "t">>
    ELSE <<c>>

RECURSIVE JsonEscape(_)
JsonEscape(s) ==
    IF s = <<>> THEN <<>> ELSE EscapeChar(Head(s)) \o JsonEscape(Tail(s))

\* a string in JSON: quoted, with quotes and backslashes escaped
JsonString(s) == <<"\"">> \o JsonEscape(s) \o <<"\"">>

DigitChars == <<"0","1","2","3","4","5","6","7","8","9">>

RECURSIVE Decimal(_)
Decimal(n) ==
    IF n < 10 THEN <<DigitChars[n + 1]>>
    ELSE Decimal(n \div 10) \o <<DigitChars[(n % 10) + 1]>>

RECURSIVE json_dumps(_)
RECURSIVE JsonItems(_)
json_dumps(v) ==
    IF v.t = "str" THEN JsonString(v.s)
    ELSE IF v.t = "int" THEN Decimal(v.n)
    ELSE <<"{">> \o JsonItems(v.kv) \o <<"}">>

JsonItems(kv) ==
    IF kv = <<>> THEN <<>>
    ELSE JsonString(kv[1][1]) \o <<":", " ">> \o json_dumps(kv[1][2])
         \o (IF Len(kv) > 1 THEN <<",", " ">> \o JsonItems(Tail(kv)) ELSE <<>>)

(***************************************************************************)
(* InputSourceHandler._get_template_input (input_sources.py:27-84).        *)
(***************************************************************************)
S_input == <<"i","n","p","u","t">>
S_output == <<"o","u","t","p","u","t">>
P_input == <<"{","i","n","p","u","t","}">>

\* [A-Za-z_] and [A-Za-z0-9_] of placeholder_pattern (input_sources.py:36)
IsIdentStart(c) ==
    \/ c \in UpperSet
    \/ c \in {LowerChars[i] : i \in 1..26}
    \/ c = "_"

IsIdentChar(c) == IsIdentStart(c) \/ c \in {DigitChars[i] : i \in 1..10}

\* the last index of the run of identifier characters that starts at index i
\* (i - 1 when s[i] is none)
IdentRunEnd(s, i) ==
    IF i > Len(s) \/ ~IsIdentChar(s[i]) THEN i - 1
    ELSE CHOOSE e \in i..Len(s) :
             /\ \A j \in i..e : IsIdentChar(s[j])
             /\ (e = Len(s) \/ ~IsIdentChar(s[e + 1]))

\* (?:\.[A-Za-z0-9_]+)* from index i + 1 on: the index of the last character
\* the dotted segments take
RECURSIVE SegmentsEnd(_, _)
SegmentsEnd(s, i) ==
    IF i + 2 <= Len(s) /\ s[i + 1] = "." /\ IsIdentChar(s[i + 2])
    THEN SegmentsEnd(s, IdentRunEnd(s, i + 2))
    ELSE i

\* placeholder_pattern matched at the start of s: the index of the closing
\* brace, 0 when s does not start with a placeholder
MatchEnd(s) ==
    IF Len(s) >= 3 /\ s[1] = "{" /\ IsIdentStart(s[2])
    THEN LET i == SegmentsEnd(s, IdentRunEnd(s, 2))
         IN  IF i + 1 <= Len(s) /\ s[i + 1] = "}" THEN i + 1 ELSE 0
    ELSE 0

\* path.split(".")
RECURSIVE Split(_)
Split(path) ==
    LET d == Find(path, <<".">>)
    IN  IF d = 0 THEN <<path>>
        ELSE <<SubSeq(path, 1, d - 1)>> \o Split(From(path, d + 1))

\* the token dropped instead of kept
LiteralDropped(path) == <<>>

\* "{" + path + "}": the placeholder as it stood in the template
Literal(path) == <<"{">> \o path \o <<"}">>

\* a string handed over as it is, anything else JSON-encoded
SerializeRaw(value) == IF value.t = "str" THEN value.s ELSE json_dumps(value)

\* the final serialization (input_sources.py:70-74): json.dumps succeeds on
\* every AgentOutput, so the str(value) of the except branch is never taken
Serialize(value) == json_dumps(value)

\* the loop over the path segments (input_sources.py:64-68)
RECURSIVE Walk(_, _)
Walk(value, segments) ==
    IF segments = <<>> THEN [ok |-> TRUE, value |-> value]
    ELSE IF value.t = "dict" /\ HasKey(value.kv, Head(segments))
         THEN Walk(GetKey(value.kv, Head(segments)), Tail(segments))
         ELSE [ok |-> FALSE, value |-> value]

\* _lookup_placeholder (input_sources.py:38-74)
lookup_placeholder(path, base, ctx) ==
    IF path = S_input THEN base
    ELSE IF ~ctx.present \/ ctx.agent_outputs = <<>> THEN Literal(path)
    ELSE LET parts == Split(path)
             agent_name == parts[1]
         IN  IF ~HasKey(ctx.agent_outputs, agent_name) THEN Literal(path)
             ELSE LET value == GetKey(ctx.agent_outputs, agent_name)
                      start_index ==
                          IF Len(parts) >= 2 /\ parts[2] = S_output THEN 3 ELSE 2
                      w == Walk(value, From(parts, start_index))
                  IN  IF w.ok THEN Serialize(w.value) ELSE Literal(path)

\* placeholder_pattern.sub(_replacer, template) (input_sources.py:76-84): one
\* pass from the left; what a replacement brings in is not scanned
RECURSIVE Substitute(_, _, _)
Substitute(s, base, ctx) ==
    IF s = <<>> THEN <<>>
    ELSE IF MatchEnd(s) > 0
         THEN lookup_placeholder(SubSeq(s, 2, MatchEnd(s) - 1), base, ctx)
              \o Substitute(From(s, MatchEnd(s) + 1), base, ctx)
         ELSE <<s[1]>> \o Substitute(Tail(s), base, ctx)

\* a template that is one placeholder hands a string value over unquoted
get_template_input_passthrough(input_template, base, ctx) ==
    LET t == IF input_template = <<>> THEN P_input ELSE input_template
        r == Substitute(t, base, ctx)
    IN  IF /\ MatchEnd(t) = Len(t)
           /\ SubSeq(t, 2, Len(t) - 1) # S_input
           /\ Len(r) >= 2
           /\ r[1] = "\""
        THEN SubSeq(r, 2, Len(r) - 1)
        ELSE r

\* the template taken as it is, without the default
get_template_input_nodefault(input_template, base, ctx) ==
    Substitute(input_template, base, ctx)

\* _get_template_input, with tool.input_template or "{input}" (line 31)
get_template_input(input_template, base, ctx) ==
    Substitute(IF input_template = <<>> THEN P_input ELSE input_template,
               base, ctx)

\* the resolver scanning its own result a second time
resolve_input_rescanning(input_template, base, ctx) ==
    get_template_input(get_template_input(input_template, base, ctx), base, ctx)

\* InputSourceHandler.resolve_input (input_sources.py:19-24)
resolve_input(input_template, base, ctx) ==
    get_template_input(input_template, base, ctx)

\* the tokens and the static text an input_template is made of
P_A == <<"{","A","}">>
P_Aout == <<"{","A",".","o","u","t","p","u","t","}">>
P_Aname == <<"{","A",".","m","a","i","n","C","h","a","r","a","c","t","e","r","N","a","m","e","}">>
P_Abc == <<"{","A",".","b",".","c","}">>
P_B == <<"{","B","}">>
S_wrapper == <<"w","r","a","p","p","e","r"," ">>
S_json == <<"{","\"","k","\"",":"," ">>
S_close == <<"}">>
T_wrapper == <<"w","r","a","p","p","e","r"," ","{","A","}"," ","t","e","x","t">>
T_char == <<"C","h","a","r",":"," ","{","A",".","m","a","i","n","C","h","a","r","a","c","t","e","r","N","a","m","e","}">>

\* placeholders that name an agent, and text without placeholders
AgentTokens == {P_A, P_Aname, P_Abc, P_B}
StaticPieces == {S_wrapper, S_json}
TemplatePieces == {P_input} \cup AgentTokens \cup StaticPieces

RECURSIVE TemplateSeqs(_)
TemplateSeqs(n) ==
    IF n = 0 THEN {<<>>}
    ELSE TemplateSeqs(n - 1) \cup
         {Append(ps, p) : ps \in TemplateSeqs(n - 1), p \in TemplatePieces}

Templates ==
    {Join(ps) : ps \in TemplateSeqs(MaxTemplatePieces)} \cup
    {T_wrapper, T_char, P_Aout, S_wrapper \o P_Aout, S_json \o P_A \o S_close}

\* the caller's input: empty, plain, holding a placeholder, holding quotes
BaseInputs ==
    { <<>>, <<"{","A","}">>, <<"s","a","y"," ","\"","h","i","\"">> }

\* agent names and the outputs each agent may record
N_A == <<"A">>
N_B == <<"B">>
V_hi == StrV(<<"h","i">>)
V_x == StrV(<<"x">>)
V_token == StrV(<<"{","B","}">>)
V_char ==
    DictV(<< <<<<"d","e","s","c","r","i","p","t","i","o","n">>, StrV(<<"x">>)>>,
             <<<<"m","a","i","n","C","h","a","r","a","c","t","e","r","N","a","m","e">>,
               StrV(<<"B","o","b">>)>> >>)
V_nested ==
    DictV(<< <<<<"b">>, DictV(<< <<<<"c">>, StrV(<<"v">>)>> >>)>>,
             <<<<"n">>, IntV(12)>> >>)

Produces(agent_name) ==
    IF agent_name = N_A THEN {V_hi, V_char, V_nested, V_token}
    ELSE {V_hi, V_x}

\* a tool with its input_template, a caller's input, no context or a new one
ResolverInit ==
    /\ template \in Templates
    /\ base_input \in BaseInputs
    /\ context \in {NoContext, EmptyContext}
    /\ resolved = <<>>
    /\ rpc = "ready"

\* context.add_output(agent_name, output), before the tool is called
AddOutput(agent_name, output) ==
    /\ rpc = "ready"
    /\ context.present
    /\ context' = add_output(context, agent_name, output)
    /\ UNCHANGED <<template, base_input, resolved, rpc>>
    /\ UNCHANGED exceptResolver

\* resolved_input = InputSourceHandler.resolve_input(tool, input, context)
\* (tools.py:160-162)
ResolveInput ==
    /\ rpc = "ready"
    /\ resolved' = resolve_input(template, base_input, context)
    /\ rpc' = "resolved"
    /\ UNCHANGED <<template, base_input, context>>
    /\ UNCHANGED exceptResolver

InitResolve ==
    ResolverInit /\ FilterInit /\ BatchIdle /\ PipelineIdle /\ RestIdle

NextResolve ==
    \/ \E agent_name \in {N_A, N_B} :
           \E output \in Produces(agent_name) : AddOutput(agent_name, output)
    \/ ResolveInput

SpecResolve == InitResolve /\ [][NextResolve]_vars

(***************************************************************************)
(* Claims about the placeholder resolver, checked under SpecResolve.       *)
(***************************************************************************)
S_mainCharacterName == <<"m","a","i","n","C","h","a","r","a","c","t","e","r","N","a","m","e">>
R_hi_quoted == <<"\"","h","i","\"">>
R_wrapper == <<"w","r","a","p","p","e","r"," ","\"","h","i","\""," ","t","e","x","t">>
R_char == <<"C","h","a","r",":"," ","\"","B","o","b","\"">>

\* the agent and the keys a placeholder token addresses
AgentOf(token) == IF token = P_B THEN N_B ELSE N_A

KeysOf(token) ==
    IF token = P_Aname THEN <<S_mainCharacterName>>
    ELSE IF token = P_Abc THEN << <<"b">>, <<"c">> >>
    ELSE <<>>

\* the value a placeholder token addresses in the context, if there is one
Addressed(token, ctx) ==
    IF ctx.present /\ HasKey(ctx.agent_outputs, AgentOf(token))
    THEN Walk(GetKey(ctx.agent_outputs, AgentOf(token)), KeysOf(token))
    ELSE [ok |-> FALSE, value |-> StrV(<<>>)]

Resolvable(token) == token \in AgentTokens /\ Addressed(token, context).ok
Unresolvable(token) == token \in AgentTokens /\ ~Addressed(token, context).ok

\* what one piece of a template is to become: static text stays, {input} is
\* the caller's input, a placeholder is its value JSON-encoded, or itself when
\* it addresses nothing
ExpectedPiece(piece) ==
    IF piece = P_input THEN base_input
    ELSE IF Resolvable(piece) THEN json_dumps(Addressed(piece, context).value)
    ELSE piece

AllTokens == AgentTokens \cup {P_Aout}

C7_JsonEncodedInTemplate ==
    rpc = "resolved" =>
        /\ (template = T_wrapper /\ Addressed(P_A, context) = [ok |-> TRUE, value |-> V_hi])
               => resolved = R_wrapper
        /\ (template = T_char /\ Addressed(P_A, context) = [ok |-> TRUE, value |-> V_char])
               => resolved = R_char
        /\ \A p1 \in TemplatePieces, p2 \in TemplatePieces :
               (/\ template = p1 \o p2
                /\ Resolvable(p1) \/ Resolvable(p2)
                /\ ~Unresolvable(p1) /\ ~Unresolvable(p2))
               => resolved = ExpectedPiece(p1) \o ExpectedPiece(p2)

\* C7 witness: Char: {A.mainCharacterName} has been resolved to Char: "Bob"
C7_Witness ==
    /\ rpc = "resolved"
    /\ template = T_char
    /\ Addressed(P_A, context) = [ok |-> TRUE, value |-> V_char]
    /\ resolved = R_char

\* C8: a template that is only {input}, or empty, resolves to the caller's
\* input verbatim, whatever the context.
C8_InputVerbatim ==
    (rpc = "resolved" /\ template \in {P_input, <<>>}) => resolved = base_input

\* C8 witness: an empty template has been resolved, under a populated context,
\* to an input that holds quotes
C8_Witness ==
    /\ rpc = "resolved"
    /\ template = <<>>
    /\ context.present /\ HasKey(context.agent_outputs, N_A)
    /\ base_input = <<"s","a","y"," ","\"","h","i","\"">>
    /\ resolved = base_input

\* C9: a placeholder whose agent has no recorded output, or whose path reaches
\* a value that is no mapping or lacks the key, stays in the result as its
\* literal; the other placeholders of the template are still resolved.
C9_SoftFallback ==
    rpc = "resolved" =>
        /\ \A token \in AllTokens :
               (template = token /\ ~Addressed(token, context).ok)
               => resolved = token
        /\ \A p1 \in TemplatePieces, p2 \in TemplatePieces :
               (template = p1 \o p2 /\ (Unresolvable(p1) \/ Unresolvable(p2)))
               => resolved = ExpectedPiece(p1) \o ExpectedPiece(p2)

\* C9 witness: in {A.b.c}{B}, A's output lacks the key and B's is resolved
C9_Witness ==
    /\ rpc = "resolved"
    /\ template = P_Abc \o P_B
    /\ Addressed(P_A, context) = [ok |-> TRUE, value |-> V_char]
    /\ Addressed(P_B, context) = [ok |-> TRUE, value |-> V_x]
    /\ resolved = P_Abc \o <<"\"","x","\"">>

(***************************************************************************)
(* StructuredOutputAgent.run (structured_output_agent.py:123-197).         *)
(***************************************************************************)
T_ok == <<"o","k">>
T_notjson == <<"n","o","t"," ","j","s","o","n">>
T_None == <<"N","o","n","e">>

\* a stream event: its own delta, or a data payload that is an object with a
\* delta, an SSE line (kept in parsed form: the contents of its choices), the
\* [DONE] line, or an event without text
DeltaEvent(t) == [shape |-> "delta", text |-> t, contents |-> <<>>]
DataDeltaEvent(t) == [shape |-> "data_delta", text |-> t, contents |-> <<>>]
SseEvent(cs) == [shape |-> "data_sse", text |-> <<>>, contents |-> cs]
DoneEvent == [shape |-> "data_done", text |-> <<>>, contents |-> <<>>]
OtherEvent == [shape |-> "other", text |-> <<>>, contents |-> <<>>]

StreamEvents ==
    {DeltaEvent(t) : t \in {T_head, T_tail, T_ok, <<>>}} \cup
    {DataDeltaEvent(t) : t \in {T_tail, T_ok}} \cup
    {SseEvent(cs) : cs \in {<<>>, <<T_ok>>, <<<<>>, T_head>>}} \cup
    {DoneEvent, OtherEvent}

\* the loop over the choices of an SSE line (lines 103-111): the non-empty
\* contents concatenated, None when there is none
RECURSIVE ChoicesText(_)
ChoicesText(cs) ==
    IF cs = <<>> THEN <<>> ELSE Head(cs) \o ChoicesText(Tail(cs))

\* _extract_text_delta (lines 86-121): the delta, or None (some = FALSE)
extract_text_delta(event) ==
    IF event.shape = "delta" THEN [some |-> TRUE, text |-> event.text]
    ELSE IF event.shape = "data_sse"
         THEN [some |-> ChoicesText(event.contents) # <<>>,
               text |-> ChoicesText(event.contents)]
    ELSE IF event.shape = "data_delta" THEN [some |-> TRUE, text |-> event.text]
    ELSE [some |-> FALSE, text |-> <<>>]

\* what the formatter's run may end with: a record of the output model, text
\* that is no such record, or nothing
V_questions ==
    DictV(<< <<<<"q","u","e","s","t","i","o","n","s">>, StrV(<<"q","1">>)>> >>)

FormatterOutputs == {V_questions, StrV(T_notjson), StrV(T_ok), NoneV}

\* formatter_result.final_output_as(self.output_model) as run relies on it
\* (lines 187-188): the record, or None when the output is no such record
final_output_as(final_output) ==
    IF final_output.t = "dict" THEN final_output ELSE NoneV

\* str(formatter_result.final_output) (line 191), of text or of None
PyStr(value) ==
    CASE value.t = "str" -> value.s
      [] value.t = "none" -> T_None
      [] value.t = "int" -> Decimal(value.n)

\* the error raised without the formatter's output
FailureErrorNoRaw(final_output) ==
    [kind |-> "raised", value |-> NoneV, raw_output |-> <<>>]

\* StructuredOutputAgentError(..., raw_output=str(final_output)) (lines 189-192)
FailureError(final_output) ==
    [kind |-> "raised", value |-> NoneV, raw_output |-> PyStr(final_output)]

\* run is called on an agent whose thinker prints think tokens or not
PipelineInit ==
    /\ ppc = "start"
    /\ should_print_think \in BOOLEAN
    /\ nevents = 0
    /\ events = <<>>
    /\ raw_chunks = <<>>
    /\ printed = <<>>
    /\ thinker_calls = 0
    /\ formatter_calls = 0
    /\ formatter_input = <<>>
    /\ formatter_result = [final_output |-> NoneV, as_model |-> NoneV]
    /\ outcome = [kind |-> "pending", value |-> NoneV, raw_output |-> <<>>]

\* think_filter = ThinkTagFilter(); Runner.run_streamed(thinker) (lines 141-150)
RunThinker ==
    /\ ppc = "start"
    /\ ppc' = "streaming"
    /\ thinker_calls' = thinker_calls + 1
    /\ inside_think_tag' = FALSE
    /\ buffer' = <<>>
    /\ tokens' = <<>>
    /\ chunks' = <<>>
    /\ raw_chunks' = <<>>
    /\ UNCHANGED <<should_print_think, nevents, events, printed, formatter_calls,
                   formatter_input, formatter_result, outcome>>
    /\ UNCHANGED exceptPipeline

\* one turn of the loop over streamed.stream_events() (lines 151-162)
StreamEvent(event) ==
    /\ ppc = "streaming"
    /\ nevents < MaxEvents
    /\ nevents' = nevents + 1
    /\ events' = Append(events, event)
    /\ LET d == extract_text_delta(event)
           r == filter_token(inside_think_tag, buffer, d.text)
       IN  IF ~d.some
           THEN UNCHANGED <<raw_chunks, printed, filterVars>>
           ELSE /\ raw_chunks' = Append(raw_chunks, d.text)
                /\ IF should_print_think
                   THEN /\ printed' = Append(printed, d.text)
                        /\ UNCHANGED filterVars
                   ELSE /\ inside_think_tag' = r.inside
                        /\ buffer' = r.buffer
                        /\ tokens' = Append(tokens, d.text)
                        /\ chunks' = Append(chunks, r.out)
                        /\ printed' = IF r.out # <<>>
                                      THEN Append(printed, r.out)
                                      ELSE printed
    /\ UNCHANGED <<ppc, should_print_think, thinker_calls, formatter_calls,
                   formatter_input, formatter_result, outcome>>
    /\ UNCHANGED exceptPipeline

\* the formatter run on what was shown instead of on the cleaned raw text
RunFormatterOnShown ==
    /\ ppc = "streaming"
    /\ printed' = Append(printed, <<"\n">>)
    /\ formatter_input' = Join(printed)
    /\ formatter_calls' = formatter_calls + 1
    /\ ppc' = "formatting"
    /\ UNCHANGED <<should_print_think, nevents, events, raw_chunks, thinker_calls,
                   formatter_result, outcome>>
    /\ UNCHANGED filterVars
    /\ UNCHANGED exceptPipeline

\* the stream is exhausted: print(), the raw text is cleaned and the formatter
\* is run on it (lines 164-184)
RunFormatter ==
    /\ ppc = "streaming"
    /\ printed' = Append(printed, <<"\n">>)
    /\ formatter_input' = remove_think_tags(Join(raw_chunks))
    /\ formatter_calls' = formatter_calls + 1
    /\ ppc' = "formatting"
    /\ UNCHANGED <<should_print_think, nevents, events, raw_chunks, thinker_calls,
                   formatter_result, outcome>>
    /\ UNCHANGED filterVars
    /\ UNCHANGED exceptPipeline

\* the formatter's run ends with final_output; run returns the parsed record
\* or raises StructuredOutputAgentError (lines 186-197)
FormatterReturns(final_output) ==
    /\ ppc = "formatting"
    /\ formatter_result' = [final_output |-> final_output,
                            as_model |-> final_output_as(final_output)]
    /\ outcome' = IF final_output_as(final_output) = NoneV
                  THEN FailureError(final_output)
                  ELSE [kind |-> "returned",
                        value |-> final_output_as(final_output),
                        raw_output |-> <<>>]
    /\ ppc' = "done"
    /\ UNCHANGED <<should_print_think, nevents, events, raw_chunks, printed,
                   thinker_calls, formatter_calls, formatter_input>>
    /\ UNCHANGED filterVars
    /\ UNCHANGED exceptPipeline

InitPipeline ==
    PipelineInit /\ FilterInit /\ BatchIdle /\ ResolverIdle /\ RestIdle

NextPipeline ==
    \/ RunThinker
    \/ \E event \in StreamEvents : StreamEvent(event)
    \/ RunFormatter
    \/ \E final_output \in FormatterOutputs : FormatterReturns(final_output)

SpecPipeline == InitPipeline /\ [][NextPipeline]_vars

(***************************************************************************)
(* Claims about StructuredOutputAgent.run, checked under SpecPipeline.     *)
(***************************************************************************)
\* C10: when the formatter's result cannot be obtained as the target record
\* type, run raises StructuredOutputAgentError whose raw_output is the
\* formatter's raw output text; nothing is returned, and the thinker and the
\* formatter have each been invoked once.
C10_ParseFailureRaises ==
    (/\ ppc = "done"
     /\ final_output_as(formatter_result.final_output) = NoneV)
    => /\ outcome.kind = "raised"
       /\ outcome.value = NoneV
       /\ outcome.raw_output = PyStr(formatter_result.final_output)
       /\ formatter_result.final_output.t = "str"
              => outcome.raw_output = formatter_result.final_output.s
       /\ thinker_calls = 1
       /\ formatter_calls = 1

\* C10 witness: the formatter answered a streamed thinker with text that is no
\* record, and run raised with that text
C10_Witness ==
    /\ ppc = "done"
    /\ raw_chunks # <<>>
    /\ formatter_result.final_output = StrV(T_notjson)
    /\ outcome.kind = "raised"
    /\ outcome.raw_output = T_notjson

(***************************************************************************)
(* ContextFormatter.prepare_context_input (context.py:46-72) and           *)
(* AgentSpecification._prepare_input (declarative_agents/__init__.py:      *)
(* 308-321).                                                               *)
(***************************************************************************)
\* a list value of an AgentOutput: its items are kept in the field kv
ListV(items) == [t |-> "list", s |-> <<>>, n |-> 0, kv |-> items]

\* "\n".join(parts)
RECURSIVE JoinLines(_)
JoinLines(parts) ==
    IF parts = <<>> THEN <<>>
    ELSE IF Len(parts) = 1 THEN parts[1]
    ELSE parts[1] \o <<"\n">> \o JoinLines(Tail(parts))

Spaces(n) == [i \in 1..n |-> " "]

\* json.dumps(output, indent=2) (context.py:61,68): one item per line, each
\* nesting level indented by two more spaces
RECURSIVE json_dumps_indent(_, _)
RECURSIVE IndentDictItems(_, _)
RECURSIVE IndentListItems(_, _)
json_dumps_indent(v, level) ==
    IF v.t = "str" THEN JsonString(v.s)
    ELSE IF v.t = "int" THEN Decimal(v.n)
    ELSE IF v.t = "none" THEN <<"n","u","l","l">>
    ELSE IF v.t = "list"
         THEN IF v.kv = <<>> THEN <<"[","]">>
              ELSE <<"[","\n">> \o IndentListItems(v.kv, level + 1)
                   \o <<"\n">> \o Spaces(2 * level) \o <<"]">>
    ELSE IF v.kv = <<>> THEN <<"{","}">>
         ELSE <<"{","\n">> \o IndentDictItems(v.kv, level + 1)
              \o <<"\n">> \o Spaces(2 * level) \o <<"}">>

IndentDictItems(kv, level) ==
    Spaces(2 * level) \o JsonString(kv[1][1]) \o <<":"," ">>
    \o json_dumps_indent(kv[1][2], level)
    \o (IF Len(kv) > 1 THEN <<",","\n">> \o IndentDictItems(Tail(kv), level)
        ELSE <<>>)

IndentListItems(items, level) ==
    Spaces(2 * level) \o json_dumps_indent(items[1], level)
    \o (IF Len(items) > 1 THEN <<",","\n">> \o IndentListItems(Tail(items), level)
        ELSE <<>>)

\* the two parts appended for one agent (context.py:59-63, 66-70)
ContextSection(agent_name, output) ==
    << <<"\n","F","r","o","m"," ">> \o agent_name \o <<":">>,
       IF output.t = "dict" THEN json_dumps_indent(output, 0) ELSE PyStr(output) >>

\* the loop over input_schema.required_context (context.py:56-63)
RECURSIVE RequiredSections(_, _)
RequiredSections(required_context, agent_outputs) ==
    IF required_context = <<>> THEN <<>>
    ELSE (IF HasKey(agent_outputs, Head(required_context))
          THEN ContextSection(Head(required_context),
                              GetKey(agent_outputs, Head(required_context)))
          ELSE <<>>)
         \o RequiredSections(Tail(required_context), agent_outputs)

\* the loop over context.agent_outputs.items() (context.py:65-70)
RECURSIVE AllSections(_)
AllSections(agent_outputs) ==
    IF agent_outputs = <<>> THEN <<>>
    ELSE ContextSection(agent_outputs[1][1], agent_outputs[1][2])
         \o AllSections(Tail(agent_outputs))

S_available == <<"A","v","a","i","l","a","b","l","e"," ","c","o","n","t","e","x","t"," ","f","o","r"," ">>

\* ContextFormatter.prepare_context_input (context.py:46-72)
prepare_context_input(ctx, required_context, agent_name) ==
    IF ctx.agent_outputs = <<>> THEN <<>>
    ELSE JoinLines(<<S_available \o agent_name \o <<":">>>>
                   \o (IF required_context # <<>>
                       THEN RequiredSections(required_context, ctx.agent_outputs)
                       ELSE AllSections(ctx.agent_outputs)))

S_task == <<"\n","\n","T","a","s","k",":"," ">>

\* _prepare_input without the Task: label
prepare_input_unlabelled(def, input, ctx) ==
    IF ctx.present /\ prepare_context_input(ctx, def.required_context, def.name) # <<>>
    THEN prepare_context_input(ctx, def.required_context, def.name) \o input
    ELSE input

\* AgentSpecification._prepare_input (declarative_agents/__init__.py:308-321)
prepare_input(def, input, ctx) ==
    IF ctx.present /\ prepare_context_input(ctx, def.required_context, def.name) # <<>>
    THEN IF input # <<>>
         THEN prepare_context_input(ctx, def.required_context, def.name)
              \o S_task \o input
         ELSE prepare_context_input(ctx, def.required_context, def.name)
    ELSE input

(***************************************************************************)
(* The current-context cell (tool_context.py:16-28). A ContextVar has one  *)
(* value per asyncio task: a task starts with a copy of its creator's      *)
(* values, and set() changes the value of the running task only.           *)
(***************************************************************************)
MainTask == 1

\* a module-level variable instead of a ContextVar: one value for all tasks
set_current_context_global(cell, task, ctx) == [t \in DOMAIN cell |-> ctx]

\* set_current_context (tool_context.py:21-23), called in task
set_current_context(cell, task, ctx) == [cell EXCEPT ![task] = ctx]

\* get_current_context (tool_context.py:26-28), called in task
get_current_context(cell, task) == cell[task]

(***************************************************************************)
(* AgentSpecification.run (declarative_agents/__init__.py:203-338).        *)
(***************************************************************************)
\* clean_agent_output (utils.py:35-47)
clean_agent_output(output) ==
    IF output.t = "str" THEN StrV(remove_think_tags(output.s))
    ELSE IF output.t = "dict"
         THEN DictV([i \in 1..Len(output.kv) |->
                        IF output.kv[i][2].t = "str"
                        THEN <<output.kv[i][1],
                               StrV(remove_think_tags(output.kv[i][2].s))>>
                        ELSE output.kv[i]])
    ELSE output

\* result.model_dump(): the fields of the record as a mapping
model_dump(value) == DictV(value.kv)

S_raw_output == <<"r","a","w","_","o","u","t","p","u","t">>

\* AgentSpecification._extract_output (declarative_agents/__init__.py:323-338)
extract_output(output_model, final_output) ==
    IF output_model
    THEN IF final_output_as(final_output) # NoneV
         THEN clean_agent_output(model_dump(final_output_as(final_output)))
         ELSE DictV(<< <<S_raw_output,
                         StrV(remove_think_tags(PyStr(final_output)))>> >>)
    ELSE StrV(remove_think_tags(PyStr(final_output)))

\* the text delta of an event of the plain path (lines 251-291), or None
run_text_delta(event) ==
    CASE event.shape = "delta" -> [some |-> TRUE, text |-> event.text]
      [] event.shape = "data_sse" ->
             [some |-> ChoicesText(event.contents) # <<>>,
              text |-> ChoicesText(event.contents)]
      [] event.shape = "data_done" -> [some |-> FALSE, text |-> <<>>]
      [] event.shape = "data_delta" -> [some |-> TRUE, text |-> event.text]
      [] OTHER -> [some |-> FALSE, text |-> <<>>]

\* the agent that is run, and the agents whose outputs a context may hold
N_C == <<"C">>
S_answer == <<"a","n","s","w","e","r">>
S_detail == <<"d","e","t","a","i","l">>
S_steps == <<"s","t","e","p","s">>
T_hi == <<"h","i">>
T_tagged == <<"<","t","h","i","n","k",">","p","l","a","n","<","/","t","h","i","n","k",">","h","i">>

\* records of the output model whose strings carry a reasoning span: at the
\* top level, inside a nested object, inside an array
V_answer == DictV(<< <<S_answer, StrV(T_tagged)>> >>)
V_in_object ==
    DictV(<< <<S_answer, StrV(T_hi)>>,
             <<S_detail, DictV(<< <<S_answer, StrV(T_tagged)>> >>)>> >>)
V_in_array ==
    DictV(<< <<S_answer, StrV(T_hi)>>,
             <<S_steps, ListV(<<StrV(T_hi), StrV(T_tagged)>>)>> >>)

\* what the model's final output may be
RunFinalOutputs ==
    {V_questions, V_answer, V_in_object, V_in_array, StrV(T_tagged), NoneV}

\* the events of a stream
RunEvents == {DeltaEvent(T_head), DeltaEvent(T_tail), SseEvent(<<T_ok>>), OtherEvent}

\* input_schema.required_context
RequiredContexts == {<<>>, <<N_A>>, <<N_B, N_A>>}

\* the definitions: a structured_output agent has an output schema
\* (types.py:238-250)
RunDefinitions ==
    {def \in [name : {N_C}, agent_type : {"agent", "structured_output"},
              output_model : BOOLEAN, required_context : RequiredContexts] :
        def.agent_type = "structured_output" => def.output_model}

\* the context argument: None, a new context, contexts with recorded outputs
RunContexts ==
    {NoContext, EmptyContext,
     add_output(EmptyContext, N_B, V_x),
     add_output(add_output(EmptyContext, N_A, V_nested), N_B, V_hi)}

RunInputs == {<<>>, T_hi}

\* run(input_data, context) is called on a specification
RunInit ==
    /\ apc = "start"
    /\ definition \in RunDefinitions
    /\ input_data \in RunInputs
    /\ run_context \in RunContexts
    /\ full_input = <<>>
    /\ streamed_final_output = NoneV
    /\ run_result = NoneV
    /\ ppc = "idle"
    /\ should_print_think \in BOOLEAN
    /\ nevents = 0
    /\ events = <<>>
    /\ raw_chunks = <<>>
    /\ printed = <<>>
    /\ thinker_calls = 0
    /\ formatter_calls = 0
    /\ formatter_input = <<>>
    /\ formatter_result = [final_output |-> NoneV, as_model |-> NoneV]
    /\ outcome = [kind |-> "pending", value |-> NoneV, raw_output |-> <<>>]

\* the input is prepared, the context is installed, and the structured
\* pipeline or the streamed agent is started (lines 210-247)
RunBegin ==
    /\ apc = "start"
    /\ full_input' = prepare_input(definition, input_data, run_context)
    /\ current_context' = set_current_context(current_context, MainTask, run_context)
    /\ IF definition.agent_type = "structured_output"
       THEN apc' = "structured" /\ ppc' = "start"
       ELSE apc' = "plain" /\ ppc' = ppc
    /\ inside_think_tag' = FALSE
    /\ buffer' = <<>>
    /\ tokens' = <<>>
    /\ chunks' = <<>>
    /\ UNCHANGED <<definition, input_data, run_context, streamed_final_output,
                   run_result>>
    /\ UNCHANGED <<should_print_think, nevents, events, raw_chunks, printed, thinker_calls,
                   formatter_calls, formatter_input, formatter_result, outcome>>
    /\ UNCHANGED exceptRun

\* the structured pipeline has ended: its error propagates, or its record is
\* returned as a mapping (lines 221-224)
StructuredReturns ==
    /\ apc = "structured"
    /\ ppc = "done"
    /\ IF outcome.kind = "returned"
       THEN /\ run_result' = model_dump(outcome.value)
            /\ apc' = "returned"
       ELSE /\ run_result' = run_result
            /\ apc' = "raised"
    /\ UNCHANGED <<definition, input_data, run_context, full_input,
                   streamed_final_output>>
    /\ UNCHANGED <<filterVars, pipelineVars, cellVars>>
    /\ UNCHANGED exceptRun

\* one turn of the loop over streamed.stream_events() (lines 249-301)
PlainStreamEvent(event) ==
    /\ apc = "plain"
    /\ nevents < MaxEvents
    /\ nevents' = nevents + 1
    /\ events' = Append(events, event)
    /\ LET d == run_text_delta(event)
           r == filter_token(inside_think_tag, buffer, d.text)
       IN  IF ~d.some
           THEN UNCHANGED <<printed, filterVars>>
           ELSE IF should_print_think
                THEN /\ printed' = Append(printed, d.text)
                     /\ UNCHANGED filterVars
                ELSE /\ inside_think_tag' = r.inside
                     /\ buffer' = r.buffer
                     /\ tokens' = Append(tokens, d.text)
                     /\ chunks' = Append(chunks, r.out)
                     /\ printed' = IF r.out # <<>>
                                   THEN Append(printed, r.out)
                                   ELSE printed
    /\ UNCHANGED <<ppc, should_print_think, raw_chunks, thinker_calls,
                   formatter_calls, formatter_input, formatter_result, outcome>>
    /\ UNCHANGED <<runVars, cellVars>>
    /\ UNCHANGED exceptRun

\* the stream is exhausted with final_output: print(), and the output is
\* extracted and returned (lines 303-306, 323-338)
PlainReturns(final_output) ==
    /\ apc = "plain"
    /\ definition.output_model \/ final_output.t # "dict"
    /\ printed' = Append(printed, <<"\n">>)
    /\ run_result' = extract_output(definition.output_model, final_output)
    /\ streamed_final_output' = final_output
    /\ apc' = "returned"
    /\ UNCHANGED <<definition, input_data, run_context, full_input>>
    /\ UNCHANGED <<ppc, should_print_think, nevents, events, raw_chunks, thinker_calls,
                   formatter_calls, formatter_input, formatter_result, outcome>>
    /\ UNCHANGED <<filterVars, cellVars>>
    /\ UNCHANGED exceptRun

InitRun ==
    RunInit /\ FilterInit /\ BatchIdle /\ ResolverIdle /\ CellIdle /\ TasksIdle
    /\ EvalIdle /\ BuildIdle /\ LoadIdle

NextRun ==
    \/ RunBegin
    \/ RunThinker
    \/ \E event \in RunEvents : StreamEvent(event)
    \/ RunFormatter
    \/ \E final_output \in RunFinalOutputs : FormatterReturns(final_output)
    \/ StructuredReturns
    \/ \E event \in RunEvents : PlainStreamEvent(event)
    \/ \E final_output \in RunFinalOutputs : PlainReturns(final_output)

SpecRun == InitRun /\ [][NextRun]_vars

(***************************************************************************)
(* Claims about AgentSpecification.run, checked under SpecRun.             *)
(***************************************************************************)
\* every string of a value, at any depth, passed through remove_think_tags
RECURSIVE CleanLeaves(_)
CleanLeaves(v) ==
    IF v.t = "str" THEN StrV(remove_think_tags(v.s))
    ELSE IF v.t = "dict"
         THEN DictV([i \in 1..Len(v.kv) |-> <<v.kv[i][1], CleanLeaves(v.kv[i][2])>>])
    ELSE IF v.t = "list"
         THEN ListV([i \in 1..Len(v.kv) |-> CleanLeaves(v.kv[i])])
    ELSE v

\* C11: when the definition's agent_type is structured_output, run returns the
\* pipeline's result as a plain mapping in which every string leaf has been
\* passed through remove_think_tags.
C11_StructuredResultCleaned ==
    (apc = "returned" /\ definition.agent_type = "structured_output")
    => /\ run_result.t = "dict"
       /\ run_result = CleanLeaves(model_dump(outcome.value))

\* C12: on the plain path with a declared output schema, the schema-validated
\* result that run returns is cleaned recursively: every string at any depth
\* of the mapping (top level, nested objects, arrays) has been passed through
\* remove_think_tags.
C12_PlainResultCleanedRecursively ==
    (/\ apc = "returned"
     /\ definition.agent_type # "structured_output"
     /\ definition.output_model
     /\ final_output_as(streamed_final_output) # NoneV)
    => run_result = CleanLeaves(model_dump(streamed_final_output))

\* C13: after a run completes with an AgentContext supplied, the agent's
\* cleaned output is recorded in the context under the agent's name, where the
\* next run with the same context and any placeholder naming the agent see it.
C13_OutputRecorded ==
    (apc = "returned" /\ run_context.present)
    => /\ HasKey(run_context.agent_outputs, definition.name)
       /\ GetKey(run_context.agent_outputs, definition.name) = run_result

\* the agents of the context that the preamble is to cover
Covered(agent_name) ==
    \/ definition.required_context = <<>>
    \/ \E i \in 1..Len(definition.required_context) :
          definition.required_context[i] = agent_name

\* the line that opens the part of the preamble for one agent
FromLine(agent_name) == <<"\n","F","r","o","m"," ">> \o agent_name \o <<":","\n">>

\* C16: with a context that has recorded outputs, the full input is the
\* context preamble followed by the caller's input under a Task: label, or the
\* preamble alone when the caller's input is empty; the preamble covers all
\* recorded agents, or only those named in required_context when that list is
\* not empty; with no context or a context without recorded outputs the full
\* input is the caller's input unchanged.
C16_InputPrepared ==
    apc # "start" =>
        LET preamble == prepare_context_input(run_context,
                            definition.required_context, definition.name)
            outputs == run_context.agent_outputs
        IN  IF run_context.present /\ outputs # <<>>
            THEN /\ full_input = IF input_data # <<>>
                                 THEN preamble \o <<"\n","\n","T","a","s","k",":"," ">>
                                      \o input_data
                                 ELSE preamble
                 /\ MatchAt(preamble, S_available \o definition.name \o <<":">>, 1)
                 /\ \A i \in 1..Len(outputs) :
                       /\ Contains(preamble, FromLine(outputs[i][1]))
                              <=> Covered(outputs[i][1])
                       /\ Covered(outputs[i][1]) =>
                              Contains(preamble,
                                  FromLine(outputs[i][1]) \o
                                  (IF outputs[i][2].t = "dict"
                                   THEN json_dumps_indent(outputs[i][2], 0)
                                   ELSE PyStr(outputs[i][2])))
            ELSE full_input = input_data

\* C16 witness: the context holds the outputs of A and B, only A is required,
\* and the caller's input follows the part for A under the Task: label
C16_Witness ==
    /\ apc # "start"
    /\ input_data = T_hi
    /\ definition.required_context = <<N_A>>
    /\ HasKey(run_context.agent_outputs, N_A)
    /\ HasKey(run_context.agent_outputs, N_B)
    /\ Contains(full_input, FromLine(N_A))
    /\ ~Contains(full_input, FromLine(N_B))
    /\ From(full_input, Len(full_input) - 9) =
           <<"\n","\n","T","a","s","k",":"," ","h","i">>

(***************************************************************************)
(* Agent runs and agent tools in the tasks of the event loop               *)
(* (declarative_agents/__init__.py:210-232, tools.py:151-166,              *)
(* agent_runner.py:11-18). The tool function of an agent is awaited in the *)
(* task of the agent's run or in a task created for the call, which starts *)
(* with a copy of the creator's context variables.                         *)
(***************************************************************************)
\* the contexts given to top-level runs: None and two contexts that differ
TaskContexts ==
    {NoContext, add_output(EmptyContext, N_A, V_hi), add_output(EmptyContext, N_B, V_x)}

\* a run in progress: its context argument, and whether a run nested in it
\* has returned
RunFrame(ctx) == [context |-> ctx, nested_done |-> FALSE]

\* the innermost run of a task
InnermostRun(task) == task_runs[task][Len(task_runs[task])]

\* a task created by task has not ended
Awaits(task) == \E child \in Tasks : task_parent[child] = task

\* the innermost run of a task, once a run nested in it has returned
NestedReturned(runs) ==
    [i \in 1..Len(runs) |->
        IF i = Len(runs) THEN [runs[i] EXCEPT !.nested_done = TRUE] ELSE runs[i]]

\* agent_spec.run(input, context=ctx) is called in a task where no run is in
\* progress; the run installs its context (lines 210-232, 435-443)
StartRun(task, ctx) ==
    /\ task_runs[task] = <<>>
    /\ task_parent[task] = 0
    /\ current_context' = set_current_context(current_context, task, ctx)
    /\ task_runs' = [task_runs EXCEPT ![task] = <<RunFrame(ctx)>>]
    /\ UNCHANGED <<task_parent, last_read>>
    /\ UNCHANGED exceptTasks

\* the innermost agent of a task calls an agent tool, awaited in the same
\* task: the tool reads the cell and runs its agent with that context
\* (tools.py:151-166, agent_runner.py:16-17), and the nested run installs it
AgentToolInline(task) ==
    /\ task_runs[task] # <<>>
    /\ Len(task_runs[task]) < MaxNesting
    /\ ~Awaits(task)
    /\ LET current == get_current_context(current_context, task)
       IN  /\ last_read' = [some |-> TRUE,
                            run_context |-> InnermostRun(task).context,
                            seen |-> current,
                            after_nested |-> InnermostRun(task).nested_done]
           /\ current_context' = set_current_context(current_context, task, current)
           /\ task_runs' = [task_runs EXCEPT ![task] = Append(@, RunFrame(current))]
    /\ UNCHANGED task_parent
    /\ UNCHANGED exceptTasks

\* the same call awaited in a task created for it
AgentToolSpawn(task, child) ==
    /\ task_runs[task] # <<>>
    /\ child # task
    /\ task_runs[child] = <<>>
    /\ task_parent[child] = 0
    /\ LET copied == [current_context EXCEPT ![child] = current_context[task]]
           current == get_current_context(copied, child)
       IN  /\ last_read' = [some |-> TRUE,
                            run_context |-> InnermostRun(task).context,
                            seen |-> current,
                            after_nested |-> InnermostRun(task).nested_done]
           /\ current_context' = set_current_context(copied, child, current)
           /\ task_runs' = [task_runs EXCEPT ![child] = <<RunFrame(current)>>]
    /\ task_parent' = [task_parent EXCEPT ![child] = task]
    /\ UNCHANGED exceptTasks

\* the innermost run of a task returns; the cell keeps its value
RunReturns(task) ==
    /\ task_runs[task] # <<>>
    /\ ~Awaits(task)
    /\ IF Len(task_runs[task]) > 1
       THEN /\ task_runs' = [task_runs EXCEPT ![task] =
                                NestedReturned(SubSeq(@, 1, Len(@) - 1))]
            /\ UNCHANGED task_parent
       ELSE IF task_parent[task] # 0
       THEN /\ task_runs' = [task_runs EXCEPT
                                ![task] = <<>>,
                                ![task_parent[task]] = NestedReturned(@)]
            /\ task_parent' = [task_parent EXCEPT ![task] = 0]
       ELSE /\ task_runs' = [task_runs EXCEPT ![task] = <<>>]
            /\ UNCHANGED task_parent
    /\ UNCHANGED <<current_context, last_read>>
    /\ UNCHANGED exceptTasks

InitTasks ==
    TasksIdle /\ CellIdle /\ FilterInit /\ BatchIdle /\ ResolverIdle
    /\ PipelineIdle /\ RunIdle /\ EvalIdle /\ BuildIdle /\ LoadIdle

NextTasks ==
    \/ \E task \in Tasks, ctx \in TaskContexts : StartRun(task, ctx)
    \/ \E task \in Tasks : AgentToolInline(task)
    \/ \E task \in Tasks, child \in Tasks : AgentToolSpawn(task, child)
    \/ \E task \in Tasks : RunReturns(task)

SpecTasks == InitTasks /\ [][NextTasks]_vars

CaseWithId(id) == [has_id |-> TRUE, id |-> id]
CaseWithoutId == [has_id |-> FALSE, id |-> <<>>]
TestCases == {CaseWithId(<<"a">>), CaseWithId(<<"b">>), CaseWithoutId}

RECURSIVE Suites(_)
Suites(n) ==
    IF n = 0 THEN {<<>>}
    ELSE Suites(n - 1) \cup
         {Append(suite, test_case) : suite \in Suites(n - 1), test_case \in TestCases}

\* test_case.get("id", f"case_{idx}") (line 271)
test_id_of(suite, idx) ==
    IF suite[idx].has_id THEN suite[idx].id
    ELSE <<"c","a","s","e","_">> \o Decimal(idx)

\* how the run of the agent on one case may end: with an exception, without
\* a parsed output, with a parsed output
AgentRuns == {"raises", "none", "output"}

\* what the judge's formatter may yield: no EvaluationResult, passed, not passed
JudgeResults == {"unparsable", "pass", "fail"}

Row(id, result) == [id |-> id, result |-> result]

\* one case as it was run: how the agent's run ended, the judge agents
\* invoked in order, what the judge's formatter yielded ("" without judge)
Logged(agent_run, calls, judge) ==
    [agent_run |-> agent_run, calls |-> calls, judge |-> judge]

\* the suite is about to be run (lines 241-268); a structured_output agent has
\* an output model
EvalInit ==
    /\ epc = "running"
    /\ eval_error = <<>>
    /\ test_suite \in Suites(MaxCases)
    /\ use_structured_output \in BOOLEAN
    /\ eval_output_model \in BOOLEAN
    /\ use_structured_output => eval_output_model
    /\ cases_done = 0
    /\ case_rows = <<>>
    /\ pass_count = 0
    /\ table = <<>>
    /\ pass_rate = NoRatio
    /\ case_log = <<>>

\* the judge phase counting every parsed result as a pass
JudgeCaseCounting(id, judge) ==
    /\ case_rows' = Append(case_rows, Row(id, IF judge = "pass" THEN "PASS" ELSE "FAIL"))
    /\ pass_count' = IF judge # "unparsable" THEN pass_count + 1 ELSE pass_count
    /\ cases_done' = cases_done + 1
    /\ case_log' = Append(case_log,
                          Logged("output", <<"judge", "judge_formatter">>, judge))
    /\ UNCHANGED <<epc, eval_error>>

\* the judge phase of one case (lines 352-419)
JudgeCase(id, judge) ==
    /\ case_rows' = Append(case_rows, Row(id, IF judge = "pass" THEN "PASS" ELSE "FAIL"))
    /\ pass_count' = IF judge = "pass" THEN pass_count + 1 ELSE pass_count
    /\ cases_done' = cases_done + 1
    /\ case_log' = Append(case_log,
                          Logged("output", <<"judge", "judge_formatter">>, judge))
    /\ UNCHANGED <<epc, eval_error>>

\* the case is recorded as failed without a judge (lines 347-350, plain path)
FailCase(id, agent_run) ==
    /\ case_rows' = Append(case_rows, Row(id, "FAIL"))
    /\ cases_done' = cases_done + 1
    /\ case_log' = Append(case_log, Logged(agent_run, <<>>, ""))
    /\ UNCHANGED <<epc, eval_error, pass_count>>

\* one turn of the loop over the suite (lines 270-419)
EvaluateCase(agent_run, judge) ==
    /\ epc = "running"
    /\ cases_done < Len(test_suite)
    /\ LET id == test_id_of(test_suite, cases_done + 1)
       IN  IF use_structured_output
           THEN IF agent_run = "output"
                THEN JudgeCase(id, judge)
                ELSE \* the exception is caught (lines 281-290); the row is
                     \* appended, then line 349 reads agent_stream, which
                     \* only the plain path assigns (line 343)
                     /\ case_rows' = Append(case_rows, Row(id, "FAIL"))
                     /\ epc' = "raised"
                     /\ eval_error' = <<"UnboundLocalError">>
                     /\ case_log' = Append(case_log, Logged(agent_run, <<>>, ""))
                     /\ UNCHANGED <<cases_done, pass_count>>
           ELSE IF agent_run = "raises"
                THEN \* nothing catches the exception of the stream
                     \* (lines 304-329)
                     /\ epc' = "raised"
                     /\ eval_error' = <<"agent run">>
                     /\ case_log' = Append(case_log, Logged(agent_run, <<>>, ""))
                     /\ UNCHANGED <<cases_done, case_rows, pass_count>>
                ELSE IF agent_run = "output" /\ eval_output_model
                     THEN JudgeCase(id, judge)
                     ELSE FailCase(id, agent_run)
    /\ UNCHANGED <<test_suite, use_structured_output, eval_output_model, table,
                   pass_rate>>
    /\ UNCHANGED exceptEval

\* (pass_count / total_count) * 100 if total_count > 0 else 0 (line 435)
pass_rate_of(passes, total_count) ==
    IF total_count > 0 THEN Ratio(passes * 100, total_count) ELSE Ratio(0, 1)

\* the loop has ended: the table of the rows is printed and the pass rate
\* logged (lines 421-441)
Summarise ==
    /\ epc = "running"
    /\ cases_done = Len(test_suite)
    /\ table' = case_rows
    /\ pass_rate' = pass_rate_of(pass_count, Len(test_suite))
    /\ epc' = "completed"
    /\ UNCHANGED <<eval_error, test_suite, use_structured_output, eval_output_model,
                   cases_done, case_rows, pass_count, case_log>>
    /\ UNCHANGED exceptEval

InitEval ==
    EvalInit /\ FilterInit /\ BatchIdle /\ ResolverIdle /\ PipelineIdle /\ RunIdle
    /\ CellIdle /\ TasksIdle /\ BuildIdle /\ LoadIdle

NextEval ==
    \/ \E agent_run \in AgentRuns, judge \in JudgeResults : EvaluateCase(agent_run, judge)
    \/ Summarise

SpecEval == InitEval /\ [][NextEval]_vars

(***************************************************************************)
(* Claims about the evaluation harness, checked under SpecEval.            *)
(***************************************************************************)
\* C15: a failing test case never aborts an evaluation: whatever cases have an
\* agent run that raises or yields no output, on the structured path and on
\* the plain path, evaluate_agent_against_suite does not raise, and it ends
\* having recorded exactly one PASS or FAIL row per test case, in suite order.
C15_FailingCaseNeverAborts ==
    /\ epc # "raised"
    /\ epc = "completed" =>
          /\ Len(table) = Len(test_suite)
          /\ \A i \in 1..Len(table) :
                /\ table[i].id = test_id_of(test_suite, i)
                /\ table[i].result \in {"PASS", "FAIL"}

(***************************************************************************)
(* ModelFactory (models.py:14-119). A field definition is the mapping of   *)
(* one property of the schema: its "type", its "minItems" and "maxItems",  *)
(* its "items" (none or one definition) and its "properties" (names with   *)
(* definitions, in order).                                                 *)
(***************************************************************************)
\* the value under "minItems" or "maxItems": no such key, an int, the bool
\* True, a string such as "3"
NoBound == [k |-> "absent", n |-> 0]
IntBound(n) == [k |-> "int", n |-> n]
BoolBound == [k |-> "bool", n |-> 1]
StrBound == [k |-> "str", n |-> 0]

\* isinstance(value, int): bool is a subclass of int
IsInstanceInt(bound) == bound.k \in {"int", "bool"}

FieldDef(type, min_items, max_items, items, properties) ==
    [type |-> type, minItems |-> min_items, maxItems |-> max_items,
     items |-> items, properties |-> properties]

\* a Python type: str, int, float, bool, List[item], a nested model with its
\* fields
PyType(t, of) == [t |-> t, of |-> of]

TypeError(error) == [ok |-> FALSE, error |-> error, type |-> PyType("none", <<>>)]
TypeOk(type) == [ok |-> TRUE, error |-> "", type |-> type]

\* ModelFactory._python_type_from_schema (models.py:68-119)
RECURSIVE python_type_from_schema(_)
RECURSIVE NestedFields(_)
python_type_from_schema(field_def) ==
    IF field_def.type = "absent" THEN TypeError("type")
    ELSE IF field_def.type = "string" THEN TypeOk(PyType("str", <<>>))
    ELSE IF field_def.type = "integer" THEN TypeOk(PyType("int", <<>>))
    ELSE IF field_def.type = "number" THEN TypeOk(PyType("float", <<>>))
    ELSE IF field_def.type = "boolean" THEN TypeOk(PyType("bool", <<>>))
    ELSE IF field_def.type = "array"
         THEN IF field_def.items = <<>> THEN TypeError("items")
              ELSE LET item == python_type_from_schema(field_def.items[1])
                   IN  IF item.ok THEN TypeOk(PyType("list", <<item.type>>))
                       ELSE item
    ELSE IF field_def.type = "object"
         THEN IF field_def.properties = <<>> THEN TypeError("properties")
              ELSE LET nested == NestedFields(field_def.properties)
                   IN  IF nested.ok THEN TypeOk(PyType("model", nested.fields))
                       ELSE TypeError(nested.error)
    ELSE TypeError("unsupported")

\* the loop over the properties of a nested object (models.py:108-114): each
\* field gets its type and a description, nothing else
NestedFields(properties) ==
    IF properties = <<>> THEN [ok |-> TRUE, error |-> "", fields |-> <<>>]
    ELSE LET nested_type == python_type_from_schema(properties[1][2])
             rest == NestedFields(Tail(properties))
         IN  IF ~nested_type.ok
             THEN [ok |-> FALSE, error |-> nested_type.error, fields |-> <<>>]
             ELSE IF ~rest.ok THEN rest
             ELSE [ok |-> TRUE, error |-> "",
                   fields |-> <<[name |-> properties[1][1],
                                 type |-> nested_type.type,
                                 min_length |-> NoBound,
                                 max_length |-> NoBound]>> \o rest.fields]

\* the checks of one top-level field (models.py:34-61): the error raised, or ""
BoundsError(field_def) ==
    IF field_def.type = "array"
    THEN IF field_def.minItems.k # "absent"
            /\ (~IsInstanceInt(field_def.minItems) \/ field_def.minItems.n < 0)
         THEN "minItems"
         ELSE IF field_def.maxItems.k # "absent"
                 /\ (~IsInstanceInt(field_def.maxItems) \/ field_def.maxItems.n < 0)
         THEN "maxItems"
         ELSE IF IsInstanceInt(field_def.minItems) /\ IsInstanceInt(field_def.maxItems)
                 /\ field_def.maxItems.n < field_def.minItems.n
         THEN "maxItems < minItems"
         ELSE ""
    ELSE IF field_def.minItems.k # "absent" \/ field_def.maxItems.k # "absent"
         THEN "non-array"
         ELSE ""

\* the loop over schema.properties (models.py:30-64)
RECURSIVE TopFields(_)
TopFields(properties) ==
    IF properties = <<>> THEN [ok |-> TRUE, error |-> "", fields |-> <<>>]
    ELSE LET field_type == python_type_from_schema(properties[1][2])
             rest == TopFields(Tail(properties))
         IN  IF ~field_type.ok
             THEN [ok |-> FALSE, error |-> field_type.error, fields |-> <<>>]
             ELSE IF BoundsError(properties[1][2]) # ""
             THEN [ok |-> FALSE, error |-> BoundsError(properties[1][2]),
                   fields |-> <<>>]
             ELSE IF ~rest.ok THEN rest
             ELSE [ok |-> TRUE, error |-> "",
                   fields |-> <<[name |-> properties[1][1],
                                 type |-> field_type.type,
                                 min_length |-> IF IsInstanceInt(properties[1][2].minItems)
                                                THEN properties[1][2].minItems
                                                ELSE NoBound,
                                 max_length |-> IF IsInstanceInt(properties[1][2].maxItems)
                                                THEN properties[1][2].maxItems
                                                ELSE NoBound]>> \o rest.fields]

\* ModelFactory.create_output_model_from_schema (models.py:17-66)
create_output_model_from_schema(properties) ==
    IF properties = <<>>
    THEN [kind |-> "raised", error |-> "no properties", fields |-> <<>>]
    ELSE IF TopFields(properties).ok
         THEN [kind |-> "model", error |-> "", fields |-> TopFields(properties).fields]
         ELSE [kind |-> "raised", error |-> TopFields(properties).error,
               fields |-> <<>>]

\* the pairs of "minItems" and "maxItems" of a field: none, well-formed,
\* in the wrong order, negative, not a number, a bool, one bound only
BoundPairs ==
    { <<NoBound, NoBound>>, <<IntBound(1), IntBound(3)>>, <<IntBound(3), IntBound(2)>>,
      <<IntBound(-1), NoBound>>, <<NoBound, StrBound>>, <<BoolBound, NoBound>>,
      <<IntBound(2), NoBound>> }

\* fields without items or properties: strings with each pair of bounds, an
\* integer, a definition without "type", one with an unsupported type
LeafDefs ==
    {FieldDef("string", pair[1], pair[2], <<>>, <<>>) : pair \in BoundPairs} \cup
    {FieldDef("integer", NoBound, NoBound, <<>>, <<>>),
     FieldDef("absent", NoBound, NoBound, <<>>, <<>>),
     FieldDef("date", NoBound, NoBound, <<>>, <<>>)}

\* field definitions with at most depth levels of arrays and objects
RECURSIVE FieldDefs(_)
FieldDefs(depth) ==
    IF depth = 0 THEN LeafDefs
    ELSE FieldDefs(depth - 1) \cup
         {FieldDef("array", pair[1], pair[2], <<inner>>, <<>>) :
             inner \in FieldDefs(depth - 1), pair \in BoundPairs} \cup
         {FieldDef("object", pair[1], pair[2], <<>>, << <<"p", inner>> >>) :
             inner \in FieldDefs(depth - 1), pair \in BoundPairs} \cup
         {FieldDef("array", NoBound, NoBound, <<>>, <<>>),
          FieldDef("object", NoBound, NoBound, <<>>, <<>>)}

\* schema.properties: none, one field, two fields
SchemaProperties ==
    {<<>>} \cup
    {<< <<"f", field_def>> >> : field_def \in FieldDefs(MaxSchemaDepth)} \cup
    {<< <<"f", first>>, <<"g", second>> >> : first \in LeafDefs, second \in LeafDefs}

\* a schema is about to be built
BuildInit ==
    /\ schema_properties \in SchemaProperties
    /\ built = [kind |-> "pending", error |-> "", fields |-> <<>>]

\* ModelFactory.create_output_model_from_schema(schema, model_name)
Build ==
    /\ built.kind = "pending"
    /\ built' = create_output_model_from_schema(schema_properties)
    /\ UNCHANGED schema_properties
    /\ UNCHANGED exceptBuild

InitBuild ==
    BuildInit /\ FilterInit /\ BatchIdle /\ ResolverIdle /\ PipelineIdle /\ RunIdle
    /\ CellIdle /\ TasksIdle /\ EvalIdle /\ LoadIdle

NextBuild == Build

SpecBuild == InitBuild /\ [][NextBuild]_vars

(***************************************************************************)
(* Claims about the schema model builder, checked under SpecBuild.         *)
(***************************************************************************)
\* the field definitions of a schema at every place: the properties
\* themselves, the properties of nested objects, the items of arrays
RECURSIVE DefsWithin(_)
RECURSIVE DefsOfProperties(_)
DefsWithin(field_def) ==
    {field_def}
    \cup (IF field_def.items = <<>> THEN {} ELSE DefsWithin(field_def.items[1]))
    \cup DefsOfProperties(field_def.properties)

DefsOfProperties(properties) ==
    IF properties = <<>> THEN {}
    ELSE DefsWithin(properties[1][2]) \cup DefsOfProperties(Tail(properties))

\* "minItems" or "maxItems" is present on a field that is no array
MisplacedBounds(field_def) ==
    /\ field_def.type # "array"
    /\ (field_def.minItems.k # "absent" \/ field_def.maxItems.k # "absent")

\* C17: building a typed record from a schema in which minItems or maxItems is
\* present on a field whose type is not array fails, wherever the field sits
\* (top-level property, property of a nested object, array item).
C17_MisplacedBoundsFail ==
    (/\ built.kind \in {"model", "raised"}
     /\ \E field_def \in DefsOfProperties(schema_properties) :
           MisplacedBounds(field_def))
    => built.kind = "raised"

\* the named fields of a schema at every depth: the properties themselves and
\* the properties of the objects nested in them (directly or as array items)
RECURSIVE FieldsWithin(_)
FieldsWithin(properties) ==
    IF properties = <<>> THEN {}
    ELSE {properties[1][2]}
         \cup UNION {FieldsWithin(field_def.properties) :
                        field_def \in DefsWithin(properties[1][2])}
         \cup FieldsWithin(Tail(properties))

\* a bound that is absent or a non-negative integer (an int of Python, which
\* includes True)
WellFormedBound(bound) ==
    bound.k = "absent" \/ (IsInstanceInt(bound) /\ bound.n >= 0)

WellFormedBounds(field_def) ==
    /\ WellFormedBound(field_def.minItems)
    /\ WellFormedBound(field_def.maxItems)
    /\ (field_def.minItems.k # "absent" /\ field_def.maxItems.k # "absent")
          => field_def.maxItems.n >= field_def.minItems.n

\* every array field of the built record with well-formed bounds has them as
\* its minimum and maximum length
RECURSIVE BoundsKept(_, _)
RECURSIVE BoundsKeptIn(_, _)
BoundsKept(properties, fields) ==
    \A i \in 1..Len(properties) :
        /\ (properties[i][2].type = "array" /\ WellFormedBounds(properties[i][2]))
              => /\ fields[i].min_length = properties[i][2].minItems
                 /\ fields[i].max_length = properties[i][2].maxItems
        /\ BoundsKeptIn(properties[i][2], fields[i].type)

BoundsKeptIn(field_def, type) ==
    IF field_def.type = "object" THEN BoundsKept(field_def.properties, type.of)
    ELSE IF field_def.type = "array" THEN BoundsKeptIn(field_def.items[1], type.of[1])
    ELSE TRUE

\* C18: building a typed record fails whenever an array field declares a
\* minItems or maxItems that is not a non-negative integer, or both with
\* maxItems < minItems; when the record is built, the well-formed bounds of
\* each array field are the field's minimum and maximum length.
C18_ArrayBoundsEnforced ==
    /\ (/\ built.kind \in {"model", "raised"}
        /\ \E field_def \in FieldsWithin(schema_properties) :
              field_def.type = "array" /\ ~WellFormedBounds(field_def))
       => built.kind = "raised"
    /\ built.kind = "model" => BoundsKept(schema_properties, built.fields)

(***************************************************************************)
(* AgentLoader.load_from_dict (declarative_agents/__init__.py:363-432)     *)
(* with the validators of AgentDefinition (types.py:189-250) and the       *)
(* constructor of AgentSpecification (declarative_agents/__init__.py:      *)
(* 73-98). The document is a record: what sits under "agent" (nothing, a   *)
(* scalar, a mapping), whether the mapping has a key that is not allowed,  *)
(* the texts under "type", "name" and "prompt" ("absent": no such key),    *)
(* the value under "max_iterations", the top-level section that has the    *)
(* wrong shape ("": none), and output_schema.properties.                   *)
(***************************************************************************)
\* class AgentType(str, Enum)
AgentTypeValues == {"agent", "tool", "orchestrator", "structured_output"}

\* AgentType(value): the member with that value, or ValueError
AgentType(value) ==
    IF value \in AgentTypeValues THEN [ok |-> TRUE, member |-> value]
    ELSE [ok |-> FALSE, member |-> ""]

Raised(error) == [kind |-> "raised", error |-> error, agent_type |-> ""]

\* lines 396-401: the "type" text becomes a member of the enum
agent_type_of(data) ==
    LET agent_type_str == IF data.type = "absent" THEN "agent" ELSE data.type
    IN  IF AgentType(agent_type_str).ok THEN AgentType(agent_type_str).member
        ELSE "agent"

\* AgentDefinition(...) with its validators, then AgentSpecification(definition)
construct_specification(data, agent_type) ==
    IF data.name = "absent" THEN Raised("KeyError: name")
    ELSE IF data.prompt = "absent" THEN Raised("KeyError: prompt")
    ELSE IF data.name = "" THEN Raised("agent.name")
    ELSE IF data.prompt = "" THEN Raised("agent.prompt")
    ELSE IF data.max_iterations.k # "absent" /\ data.max_iterations.n <= 0
         THEN Raised("max_iterations")
    ELSE IF agent_type = "structured_output" /\ data.output_properties = <<>>
         THEN Raised("output_schema.properties")
    ELSE IF data.output_properties # <<>>
            /\ create_output_model_from_schema(data.output_properties).kind = "raised"
         THEN Raised(create_output_model_from_schema(data.output_properties).error)
    ELSE [kind |-> "specification", error |-> "", agent_type |-> agent_type]

\* AgentLoader.load_from_dict
load_from_dict(data) ==
    IF data.agent = "absent" THEN Raised("agent")
    ELSE IF data.agent # "mapping" THEN Raised("agent mapping")
    ELSE IF data.unknown_agent THEN Raised("unknown keys")
    ELSE IF data.bad_section # "" THEN Raised(data.bad_section)
    ELSE construct_specification(data, agent_type_of(data))

\* texts under agent.type: the four values, no key, and texts that are none
\* of the four (another word, another case, a prefix)
TypeTexts == AgentTypeValues \cup {"absent", "assistant", "Agent", "structured"}

LoadSchemas ==
    { <<>>,
      << <<"f", FieldDef("string", NoBound, NoBound, <<>>, <<>>)>> >>,
      << <<"f", FieldDef("date", NoBound, NoBound, <<>>, <<>>)>> >> }

YamlDocuments ==
    { data \in [agent : {"absent", "scalar", "mapping"},
                unknown_agent : BOOLEAN,
                type : TypeTexts,
                name : {"absent", "", "n"},
                prompt : {"absent", "", "p"},
                max_iterations : {NoBound, IntBound(0), IntBound(3)},
                bad_section : {"", "model", "tools"},
                output_properties : LoadSchemas] :
        data.agent # "mapping" =>
            /\ ~data.unknown_agent
            /\ data.type = "absent" /\ data.name = "absent" /\ data.prompt = "absent"
            /\ data.max_iterations = NoBound }

\* a document is about to be loaded
LoadInit ==
    /\ yaml_data \in YamlDocuments
    /\ loaded = [kind |-> "pending", error |-> "", agent_type |-> ""]

Load ==
    /\ loaded.kind = "pending"
    /\ loaded' = load_from_dict(yaml_data)
    /\ UNCHANGED yaml_data
    /\ UNCHANGED exceptLoad

InitLoad ==
    LoadInit /\ FilterInit /\ BatchIdle /\ ResolverIdle /\ PipelineIdle /\ RunIdle
    /\ CellIdle /\ TasksIdle /\ EvalIdle /\ BuildIdle

NextLoad == Load

SpecLoad == InitLoad /\ [][NextLoad]_vars

(***************************************************************************)
(* Claim about the loader, checked under SpecLoad.                         *)
(***************************************************************************)
\* C19: loading a definition whose agent.type is not one of the four enum
\* values fails at load time; the value is never coerced to a default type.
C19_InvalidTypeFails ==
    (/\ loaded.kind \in {"specification", "raised"}
     /\ yaml_data.agent = "mapping"
     /\ yaml_data.type \notin AgentTypeValues \cup {"absent"})
    => loaded.kind = "raised"

(***************************************************************************)
(* Claim about a tag cut in two by the stream, checked under Spec.         *)
(***************************************************************************)
\* the filter after the tokens toks were fed to a fresh filter, one by one
RECURSIVE Replay(_)
Replay(toks) ==
    IF toks = <<>> THEN [inside |-> FALSE, buffer |-> <<>>, out |-> <<>>]
    ELSE LET before == Replay(SubSeq(toks, 1, Len(toks) - 1))
         IN  filter_token(before.inside, before.buffer, toks[Len(toks)])

\* the last two tokens were fed outside a think span and carry one opening
\* tag between them: neither holds the tag, their concatenation does
OpenTagSplit ==
    /\ Len(tokens) >= 2
    /\ ~Replay(SubSeq(tokens, 1, Len(tokens) - 2)).inside
    /\ ~Contains(Lower(tokens[Len(tokens) - 1]), OPEN_TAG)
    /\ ~Contains(Lower(tokens[Len(tokens)]), OPEN_TAG)
    /\ Contains(Lower(tokens[Len(tokens) - 1] \o tokens[Len(tokens)]), OPEN_TAG)

\* C20: when the text of an opening tag is split across two consecutive
\* tokens, the filter still detects the tag: after the second token it is
\* inside a think span, and the text from the tag on has not been emitted.
C20_SplitOpenTagDetected ==
    OpenTagSplit =>
        /\ inside_think_tag
        /\ chunks[Len(chunks)] = <<>>

(***************************************************************************)
(* Further claims about ThinkTagFilter, checked under Spec.                *)
(***************************************************************************)
\* the filter before the last two tokens were fed
BeforeLastTwo == Replay(SubSeq(tokens, 1, Len(tokens) - 2))

\* the text received inside the span up to and including the last two tokens
SpanText ==
    BeforeLastTwo.buffer \o tokens[Len(tokens) - 1] \o tokens[Len(tokens)]

\* the last two tokens were fed inside a think span and carry its closing tag
\* between them: the text up to the first of them holds no closing tag, the
\* second holds none either, the text up to the second does
CloseTagSplit ==
    /\ Len(tokens) >= 2
    /\ BeforeLastTwo.inside
    /\ ~Contains(Lower(BeforeLastTwo.buffer \o tokens[Len(tokens) - 1]), CLOSE_TAG)
    /\ ~Contains(Lower(tokens[Len(tokens)]), CLOSE_TAG)
    /\ Contains(Lower(SpanText), CLOSE_TAG)

\* what follows the closing tag in the text of the span
AfterCloseTag == From(SpanText, Find(Lower(SpanText), CLOSE_TAG) + 8)

\* C21: inside a think span the filter keeps accumulating, so the span ends
\* as soon as the text received since the opening tag contains the closing
\* tag, also when the tag arrived in two tokens: the state is outside and the
\* visible text after the tag is emitted.
C21_SplitCloseTagEndsSpan ==
    (CloseTagSplit /\ ~Contains(Lower(AfterCloseTag), OPEN_TAG)) =>
        /\ ~inside_think_tag
        /\ LStrip(chunks[Len(chunks)]) = LStrip(AfterCloseTag)

\* a is b with some characters left out: the characters of a occur in b in
\* the same order
RECURSIVE IsSubsequence(_, _)
IsSubsequence(a, b) ==
    IF a = <<>> THEN TRUE
    ELSE IF b = <<>> THEN FALSE
    ELSE IF Head(a) = Head(b) THEN IsSubsequence(Tail(a), Tail(b))
    ELSE IsSubsequence(a, Tail(b))

\* C22: redaction safety: when every tag arrives wholly inside one token,
\* nothing between an opening tag and the nearest following closing tag is
\* ever returned: what was returned so far is made of characters outside the
\* think spans of what was fed so far, in their order.
C22_SpanContentNeverReturned ==
    TagsWhole => IsSubsequence(Emitted, Visible(Fed))

\* a span whose content was cut between two tokens, followed by visible text
C22_Witness ==
    /\ tokens = <<T_head, T_tail>>
    /\ TagsWhole
    /\ Emitted = T_visible

\* C23: ordering: after any sequence of filter_token calls the concatenation
\* of the returned chunks is a subsequence of the concatenation of the fed
\* tokens, in arrival order: nothing is emitted that was not given, nothing is
\* emitted twice, nothing is reordered.
C23_EmittedInArrivalOrder ==
    IsSubsequence(Emitted, Fed)

\* text before a span, a span cut in two, text after it: three chunks in order
C23_Witness ==
    /\ tokens = <<<<"a">>, T_head, T_tail>>
    /\ chunks = <<<<"a">>, <<>>, T_visible>>

(***************************************************************************)
(* Further claim about remove_think_tags, checked under SpecBatch.         *)
(***************************************************************************)
\* C24: for every input the result of remove_think_tags contains no opening
\* and no closing think tag, in any letter case.
C24_NoTagRemains ==
    bpc # "start" =>
        /\ ~Contains(Lower(cleaned), OPEN_TAG)
        /\ ~Contains(Lower(cleaned), CLOSE_TAG)

(***************************************************************************)
(* Further claim about StructuredOutputAgent.run, checked under            *)
(* SpecPipeline.                                                           *)
(***************************************************************************)
\* the text deltas of the events evs, in arrival order
RECURSIVE DeltasOf(_)
DeltasOf(evs) ==
    IF evs = <<>> THEN <<>>
    ELSE (IF extract_text_delta(Head(evs)).some
          THEN extract_text_delta(Head(evs)).text ELSE <<>>)
         \o DeltasOf(Tail(evs))

\* the phases of one invocation are sequential: no formatter call while the
\* thinker streams, one from then on, and the formatter's input is the
\* cleaned concatenation of the deltas of all events, printed raw or not
PhasesSequential ==
    /\ ppc \in {"start", "streaming"} => formatter_calls = 0
    /\ ppc \in {"formatting", "done"} =>
           /\ thinker_calls = 1
           /\ formatter_calls = 1
           /\ formatter_input = remove_think_tags(DeltasOf(events))

\* once the formatter has been called the thinker stream delivers nothing
StreamOverBeforeFormatter ==
    formatter_calls # 0 => (events' = events /\ formatter_calls' = formatter_calls
                            /\ formatter_input' = formatter_input)

\* C25: in one invocation of StructuredOutputAgent.run the formatter is called
\* exactly once, only after the thinker stream is exhausted, and its sole
\* input is remove_think_tags of the concatenation, in arrival order, of every
\* text delta of the thinker stream, whether think tokens are printed or not.
C25_FormatterAfterThinker ==
    [](ppc # "idle" => PhasesSequential) /\ [][StreamOverBeforeFormatter]_vars

\* a span cut between two events was filtered for display, and the formatter
\* got the visible text
C25_Witness ==
    /\ ppc = "done"
    /\ ~should_print_think
    /\ events = <<DeltaEvent(T_head), DeltaEvent(T_tail)>>
    /\ formatter_input = T_visible
    /\ formatter_calls = 1

(***************************************************************************)
(* Further claims about the evaluation harness, checked under SpecEval.    *)
(***************************************************************************)
\* C26: in the evaluation loop a case is recorded FAIL at once, with neither
\* the judge nor the judge formatter invoked, exactly when the agent's output
\* is unobtainable; for every case whose agent run produced an output, on the
\* structured path and on the plain path, with or without an output schema,
\* the judge is invoked once and then the judge formatter once.
C26_JudgedExactlyWhenOutput ==
    \A i \in 1..Len(case_log) :
        /\ case_log[i].agent_run = "output" =>
               case_log[i].calls = <<"judge", "judge_formatter">>
        /\ case_log[i].agent_run # "output" =>
               /\ case_log[i].calls = <<>>
               /\ i <= Len(case_rows)
               /\ case_rows[i].result = "FAIL"

\* the number of PASS rows among rows
RECURSIVE PassRows(_)
PassRows(rows) ==
    IF rows = <<>> THEN 0
    ELSE (IF Head(rows).result = "PASS" THEN 1 ELSE 0) + PassRows(Tail(rows))

\* C27: a case's row is PASS exactly when the judge formatter's result parsed
\* with passed = true, and FAIL in every other case, an unparseable judge
\* result included (the judge agents having run once each); at every point
\* pass_count is the number of PASS rows and exceeds neither the number of
\* rows nor the size of the suite; the pass rate of an empty suite is 0.
C27_Aggregation ==
    /\ \A i \in 1..Len(case_rows) :
          /\ case_rows[i].result \in {"PASS", "FAIL"}
          /\ case_rows[i].result = "PASS" <=> case_log[i].judge = "pass"
          /\ case_log[i].judge = "unparsable" =>
                 case_log[i].calls = <<"judge", "judge_formatter">>
    /\ pass_count = PassRows(case_rows)
    /\ pass_count <= Len(case_rows)
    /\ Len(case_rows) <= Len(test_suite)
    /\ (epc = "completed" /\ test_suite = <<>>) => pass_rate = Ratio(0, 1)

\* a suite was evaluated to the end with a pass, an unparseable judge result
\* and a case without output
C27_Witness ==
    /\ epc = "completed"
    /\ Len(case_log) = 3
    /\ case_log[1].judge = "pass"
    /\ case_log[2].judge = "unparsable"
    /\ case_log[3].agent_run = "none"
    /\ pass_count = 1
    /\ pass_rate = Ratio(100, 3)

(***************************************************************************)
(* One AgentContext through the turns of an agent: the runtime records     *)
(* outputs (context.py:23-24), the run prepares its input from the context *)
(* (declarative_agents/__init__.py _prepare_input, context.py:46-72), an   *)
(* agent tool called during the turn resolves its input against the        *)
(* context and hands the context to the nested run (tools.py:154-165).     *)
(* The context the tool reads is the one of the run it is called in.       *)
(***************************************************************************)
TurnTemplates == {P_input, T_wrapper, T_char, P_A \o P_B}

\* a tool with its template, the input it will be called with, a new context
TurnInit ==
    /\ template \in TurnTemplates
    /\ base_input \in BaseInputs
    /\ context = EmptyContext
    /\ resolved = <<>>
    /\ rpc = "ready"

\* context.add_output(agent_name, output), between turns
TurnAddOutput(agent_name, output) ==
    /\ rpc = "ready"
    /\ context' = add_output(context, agent_name, output)
    /\ UNCHANGED <<template, base_input, resolved, rpc>>
    /\ UNCHANGED <<filterVars, batchVars, pipelineVars, runVars, cellVars, laterVars>>

\* the run starts: ContextFormatter.prepare_context_input(context, ...)
TurnPrepareInput(required_context) ==
    /\ rpc = "ready"
    /\ full_input' = prepare_context_input(context, required_context, N_C)
    /\ rpc' = "turn"
    /\ UNCHANGED <<template, base_input, context, resolved>>
    /\ UNCHANGED <<apc, definition, input_data, run_context, streamed_final_output,
                   run_result>>
    /\ UNCHANGED <<filterVars, batchVars, pipelineVars, cellVars, laterVars>>

\* agent_tool_function(input): the input is resolved and the context is
\* passed to run_agent_as_tool
TurnToolCall ==
    /\ rpc = "turn"
    /\ resolved' = resolve_input(template, base_input, context)
    /\ run_context' = context
    /\ rpc' = "handed"
    /\ UNCHANGED <<template, base_input, context>>
    /\ UNCHANGED <<apc, definition, input_data, full_input, streamed_final_output,
                   run_result>>
    /\ UNCHANGED <<filterVars, batchVars, pipelineVars, cellVars, laterVars>>

\* the run returns; its locals are gone
TurnEnds ==
    /\ rpc = "handed"
    /\ rpc' = "ready"
    /\ resolved' = <<>>
    /\ full_input' = <<>>
    /\ run_context' = NoContext
    /\ UNCHANGED <<template, base_input, context>>
    /\ UNCHANGED <<apc, definition, input_data, streamed_final_output, run_result>>
    /\ UNCHANGED <<filterVars, batchVars, pipelineVars, cellVars, laterVars>>

InitTurn ==
    TurnInit /\ FilterInit /\ BatchIdle /\ PipelineIdle /\ RestIdle

NextTurn ==
    \/ \E agent_name \in {N_A, N_B} :
           \E output \in Produces(agent_name) : TurnAddOutput(agent_name, output)
    \/ \E required_context \in RequiredContexts : TurnPrepareInput(required_context)
    \/ TurnToolCall
    \/ TurnEnds

SpecTurn == InitTurn /\ [][NextTurn]_vars

(***************************************************************************)
(* Claim about the frame of the AgentContext, checked under SpecTurn.      *)
(***************************************************************************)
\* the step sets one entry of agent_outputs and leaves the others as they were
SetsOneEntry ==
    \E agent_name \in {N_A, N_B} :
        /\ HasKey(context'.agent_outputs, agent_name)
        /\ \A other \in {N_A, N_B} \ {agent_name} :
              /\ HasKey(context'.agent_outputs, other)
                     <=> HasKey(context.agent_outputs, other)
              /\ HasKey(context.agent_outputs, other) =>
                     GetKey(context'.agent_outputs, other)
                         = GetKey(context.agent_outputs, other)

\* C28: nothing done during an agent's turn mutates the AgentContext: input
\* preparation, placeholder resolution and the hand-off of the context to an
\* agent-as-tool leave agent_outputs unchanged; agent_outputs changes only
\* through add_output, which sets the named entry and leaves the others.
C28_ContextFrame ==
    [][/\ (full_input' # full_input \/ resolved' # resolved
               \/ run_context' # run_context \/ rpc' # "ready")
           => context' = context
       /\ context' # context => (rpc = "ready" /\ rpc' = "ready" /\ SetsOneEntry)]_vars

\* during a turn on a context with two outputs the tool resolved its input
\* from the context and handed the context on
C28_Witness ==
    /\ rpc = "handed"
    /\ template = P_A \o P_B
    /\ HasKey(context.agent_outputs, N_A)
    /\ HasKey(context.agent_outputs, N_B)
    /\ run_context = context
    /\ full_input # <<>>
    /\ resolved # template

(***************************************************************************)
(* State invariant of ThinkTagFilter, checked under Spec.                  *)
(***************************************************************************)
\* the last non-empty token fed (the empty text when there is none)
RECURSIVE LastNonEmpty(_)
LastNonEmpty(toks) ==
    IF toks = <<>> THEN <<>>
    ELSE IF toks[Len(toks)] # <<>> THEN toks[Len(toks)]
    ELSE LastNonEmpty(SubSeq(toks, 1, Len(toks) - 1))

\* s ends with the opening tag followed by tail
EndsWithTagThen(s, tail) ==
    /\ Len(s) >= 7 + Len(tail)
    /\ From(s, Len(s) - Len(tail) + 1) = tail
    /\ MatchAt(Lower(s), OPEN_TAG, Len(s) - Len(tail) - 6)

\* outside a span the buffer is empty; a non-empty buffer is the end of the
\* last non-empty token, right after an opening tag
BufferInvariant ==
    /\ ~inside_think_tag => buffer = <<>>
    /\ buffer # <<>> =>
           /\ inside_think_tag
           /\ Len(buffer) < Len(LastNonEmpty(tokens))
           /\ From(LastNonEmpty(tokens),
                   Len(LastNonEmpty(tokens)) - Len(buffer) + 1) = buffer
           /\ EndsWithTagThen(Fed, buffer)

\* a call with the empty token changes nothing and returns the token
EmptyTokenChangesNothing ==
    tokens' = Append(tokens, <<>>) =>
        /\ inside_think_tag' = inside_think_tag
        /\ buffer' = buffer
        /\ chunks' = Append(chunks, <<>>)

WithoutKey(kv, k) == SelectSeq(kv, LAMBDA pair : pair[1] # k)

\* the context as it would be had B recorded no output
WithoutB ==
    [context EXCEPT !.agent_outputs = WithoutKey(@, N_B)]

R_token_quoted == <<"\"","{","B","}","\"">>

\* C30: substitution is single-pass: text brought in by a substituted value
\* is not scanned for placeholders. A base input "{A}" stays literal though A
\* has an output; A's output "{B}" appears as the literal (JSON-encoded) text
\* though B has an output; and the result of a template that names no
\* placeholder of B does not depend on B's output: it is what it would be
\* had B recorded none.
C30_SinglePass ==
    (rpc = "resolved" /\ context.present) =>
        /\ (template \in {<<>>, P_input} /\ base_input = P_A
                /\ HasKey(context.agent_outputs, N_A))
               => resolved = P_A
        /\ (template = P_A /\ HasKey(context.agent_outputs, N_A)
                /\ GetKey(context.agent_outputs, N_A) = V_token)
               => resolved = R_token_quoted
        /\ (~Contains(template, <<"{","B">>) /\ HasKey(context.agent_outputs, N_B))
               => resolved = resolve_input(template, base_input, WithoutB)

\* {A} has been resolved with A's output "{B}" while B has an output
C30_Witness ==
    /\ rpc = "resolved"
    /\ template = P_A
    /\ HasKey(context.agent_outputs, N_B)
    /\ HasKey(context.agent_outputs, N_A)
    /\ GetKey(context.agent_outputs, N_A) = V_token
    /\ resolved = R_token_quoted

====
